---- MODULE Spec2Model ----
(***************************************************************************)
(* Verification model of the gravity-analyst-suite ingestion substrate:    *)
(*   - gravitic-celestial: PollingEngine + StateManager (filing polling)   *)
(*   - gravitic-celestial: PollingEngine.start_scheduled (APScheduler job) *)
(*   - gravitic-macro:     MarketIndex.upsert_markets (metadata + FTS)     *)
(*   - gravitic-macro:     TimeSeriesPersistence (snapshots)               *)
(*   - gravitic-nebula:    SignalStore (TTL cache over entities/signals)   *)
(* Each subsystem has its own specification (SpecPoll, SpecSched, ...)     *)
(* over the shared variable list; a subsystem's actions leave the other    *)
(* subsystems' variables unchanged.                                        *)
(***************************************************************************)
EXTENDS Integers, Sequences, FiniteSets, Bags, TLC

\* ------------------------------------------------------------------ bounds
\* Number of run_once cycles explored.
MaxCycles == 2
\* Largest number of filings one get_latest_filings call returns.
MaxTasks == 2
\* Number of scheduled run times of polling_job explored.
MaxTicks == 3
\* Largest number of markets in one upsert_markets call.
MaxBatch == 2
\* Largest number of events in one save_batch call.
MaxSnapBatch == 2
\* Number of save_signal calls explored.
MaxSaves == 2
\* Last clock value explored by the signal cache.
MaxTime == 4

\* scraper queries (HiringScraper, ..., SocialScraper) per behaviour
MaxQueries == 2

\* clock ticks of the scrapers' store per behaviour
MaxScrapeTime == 2

\* length of the ticker list a PollingEngine is built with
MaxTickers == 3

\* events the catalog returns to one auto-ingest
MaxCatalog == 2

\* clock ticks of the discovery index per behaviour
MaxDiscTime == 3

\* entries of a market's outcomes / outcomePrices list
MaxOutcomes == 2

\* run_once calls of one start_loop / start_scheduled call
MaxEngineCycles == 2

\* largest limit passed to get_latest_filings
MaxLimit == 2

\* 8-K filings a company has
MaxFilings == 2

\* entries of the NSE announcements feed
MaxFeed == 3

\* largest limit passed to search
MaxSearchLimit == 2

\* keywords of a mapped ticker that search_ticker goes through
MaxKeywords == 2

\* pages a bulk ingest may request
MaxPages == 2

\* index rows handed to one hydrate_metadata call
MaxMeta == 2

\* generate_content_with_fallback calls followed
MaxGenerations == 2

\* ------------------------------------------------------------- variables
VARIABLES
    \* --- PollingEngine / StateManager
    cycle,          \* number of run_once calls started so far
    runPc,          \* position of run_once: "idle" | "query" | "pool"
    group,          \* index into Markets of the group being handled
    tasks,          \* the futures of the current pool: slot -> task record
    processed,      \* table processed_filings: accession -> row | NoRow
    extractCalls,   \* extractor invocations per accession in this cycle
    lastExtract,    \* last cycle in which the extractor ran per accession
    lastWrite,      \* last cycle in which the report file was written
    \* --- PollingEngine.start_scheduled
    schedPc,        \* "init" | "startup" | "started" | "crashed" | "shutdown"
    misfire_grace,  \* misfire_grace_seconds: None or "set"
    ticks,          \* run times of polling_job that have come due
    submitted,      \* job instances handed to the executor, not yet started
    running,        \* job instances executing run_once in the executor
    sched_events,   \* table scheduler_events: sequence of event_type
    missed,         \* EVENT_JOB_MISSED events dispatched
    errors,         \* EVENT_JOB_ERROR events dispatched
    maxSkipped,     \* due runs refused because max_instances was reached
    listenerRaised, \* listener calls that ended with an exception
    \* --- MarketIndex
    market_metadata, \* table market_metadata: event_id -> row | NoRow
    market_fts,      \* virtual table market_fts: bag of rows
    upsert_result,   \* what the last upsert_markets call returned and did
    \* --- TimeSeriesPersistence
    macro_probabilities, \* table macro_probabilities: bag of rows
    snap_result,     \* what the last save_snapshot / save_batch returned
    \* --- SignalStore
    entities,        \* table entities: sequence of rows, id = position
    signals,         \* table signals: sequence of rows
    now,             \* datetime.utcnow()
    calls,           \* save_signal calls in progress: caller -> record
    saveLog,         \* completed saves in order: what each caller passed
    nSaves,          \* save_signal calls started
    lastGet,          \* the get_latest_signal call that has just returned
    \* --- Scrapers over one SignalStore
    sc_signals, \* table signals as the scrapers use it: sequence of rows
    sc_now, \* datetime.utcnow()
    sc_hist, \* per (ticker, provider): the last miss that returned a result
    sc_last, \* the scraper query that has just returned
    sc_queries, \* scraper queries made so far
    \* --- HybridResolver
    known_entities, \* self.known_entities: sequence of canonical names
    entity_vectors, \* self.entity_vectors: None or one row per encoded name
    entity_map, \* self.entity_map: canonical name -> ticker
    alias_map, \* self.alias_map: lowercased alias -> canonical name
    res_last, \* the resolve call that has just returned
    loadPc, \* position of a load_entities call run beside a resolve
    resPc, \* position of a resolve call run beside a load_entities
    \* --- PollingEngine.run_once over MarketRegistry
    g_tickers, \* self.tickers: Null before construction, else [list]
    g_pc, \* position of run_once: none | idle | loop | done
    g_groups, \* groups as group_tickers_by_market returned them
    g_group, \* index into Markets of the group being handled
    g_calls, \* get_latest_filings calls of this cycle: client and tickers
    \* --- DiscoveryEngine over its MarketIndex
    d_meta, \* table market_metadata of the engine index: event_id -> row | NoRow
    d_fts, \* virtual table market_fts of the engine index: bag of rows
    d_mtime, \* modification time of the database file, Null without a file
    d_now, \* datetime.now()
    d_last, \* the DiscoveryEngine construction that has just ended
    \* --- PolymarketScraper.hydrate_metadata
    h_last, \* the market fetched last and the MacroEvent made of it
    \* --- run_poller.py
    cli_last, \* the command line run last and how it ended
    \* --- PollingEngine.start_loop / start_scheduled
    e_pc, \* position of the calling thread: init | cycle | startup | sleep | wait | shutdown | returned | raised
    e_entry, \* the method called: none | start_loop | start_scheduled
    e_args, \* its arguments, Null before the call
    e_job, \* the job registered with the scheduler, Null without one
    e_run, \* the run_once in flight, Null without one
    e_ended, \* the run_once calls that are over, in order: thread and end
    e_last, \* the run_once that ended last, in full; Null before
    e_interrupted, \* a KeyboardInterrupt was delivered
    e_error, \* the exception that ended the call, or none
    \* --- EdgarClient / NseClient get_latest_filings
    a_last, \* the get_latest_filings call that has just returned
    \* --- MarketIndex.search
    s_last, \* the search call that has just returned
    \* --- DiscoveryEngine.search_ticker
    t_last, \* the last search_ticker call: index, ticker, limit, results
    \* --- DiscoveryEngine._trigger_ingestion
    i_pc, \* idle, paging, upsert, done, raised
    i_pages, \* what each requested page met, in order
    i_all, \* all_metadata
    i_db, \* market_metadata and market_fts of the index
    i_upsert, \* outcome of the upsert_markets call, or Null
    \* --- PolymarketScraper.hydrate_metadata
    b_last, \* the last hydrate_metadata call: rows, responses, results
    \* --- RobustGenerationEngine.generate_content_with_fallback
    r_pc, \* idle, call, returned, raised
    r_model, \* the model of the running retry loop and its attempt
    r_log, \* the generate_content calls of the current generation: model, outcome, sleep
    r_done, \* generations finished
    r_result \* the response returned or the error raised, or Null

pollVars == <<cycle, runPc, group, tasks, processed, extractCalls,
              lastExtract, lastWrite>>

schedVars == <<schedPc, misfire_grace, ticks, submitted, running,
               sched_events, missed, errors, maxSkipped, listenerRaised>>

indexVars == <<market_metadata, market_fts, upsert_result>>

snapVars == <<macro_probabilities, snap_result>>

signalVars == <<entities, signals, now, calls, saveLog, nSaves, lastGet>>

scrapeVars == <<sc_signals, sc_now, sc_hist, sc_last, sc_queries>>

resolverVars == <<known_entities, entity_vectors, entity_map, alias_map, res_last, loadPc, resPc>>

groupVars == <<g_tickers, g_pc, g_groups, g_group, g_calls>>

discoveryVars == <<d_meta, d_fts, d_mtime, d_now, d_last>>

hydrateVars == <<h_last>>

cliVars == <<cli_last>>

engineVars == <<e_pc, e_entry, e_args, e_job, e_run, e_ended, e_last,
                e_interrupted, e_error>>

adapterVars == <<a_last>>

searchVars == <<s_last>>

tickerSearchVars == <<t_last>>

ingestVars == <<i_pc, i_pages, i_all, i_db, i_upsert>>

batchVars == <<b_last>>

robustVars == <<r_pc, r_model, r_log, r_done, r_result>>

vars == <<pollVars, schedVars, indexVars, snapVars, signalVars,
         scrapeVars,
         resolverVars,
         groupVars,
         discoveryVars,
         hydrateVars,
         cliVars,
         engineVars,
         adapterVars,
         searchVars,
         tickerSearchVars,
         ingestVars,
         batchVars,
         robustVars>>

nonPollVars == <<schedVars, indexVars, snapVars, signalVars,
    scrapeVars,
    resolverVars,
    groupVars,
    discoveryVars,
    hydrateVars,
    cliVars,
    engineVars,
    adapterVars,
    searchVars,
    tickerSearchVars,
    ingestVars,
    batchVars,
    robustVars>>
nonSchedVars == <<pollVars, indexVars, snapVars, signalVars,
    scrapeVars,
    resolverVars,
    groupVars,
    discoveryVars,
    hydrateVars,
    cliVars,
    engineVars,
    adapterVars,
    searchVars,
    tickerSearchVars,
    ingestVars,
    batchVars,
    robustVars>>
nonIndexVars == <<pollVars, schedVars, snapVars, signalVars,
    scrapeVars,
    resolverVars,
    groupVars,
    discoveryVars,
    hydrateVars,
    cliVars,
    engineVars,
    adapterVars,
    searchVars,
    tickerSearchVars,
    ingestVars,
    batchVars,
    robustVars>>
nonSnapVars == <<pollVars, schedVars, indexVars, signalVars,
    scrapeVars,
    resolverVars,
    groupVars,
    discoveryVars,
    hydrateVars,
    cliVars,
    engineVars,
    adapterVars,
    searchVars,
    tickerSearchVars,
    ingestVars,
    batchVars,
    robustVars>>
nonSignalVars == <<pollVars, schedVars, indexVars, snapVars,
    scrapeVars,
    resolverVars,
    groupVars,
    discoveryVars,
    hydrateVars,
    cliVars,
    engineVars,
    adapterVars,
    searchVars,
    tickerSearchVars,
    ingestVars,
    batchVars,
    robustVars>>
nonScrapeVars == <<pollVars, schedVars, indexVars, snapVars, signalVars,
    resolverVars,
    groupVars,
    discoveryVars,
    hydrateVars,
    cliVars,
    engineVars,
    adapterVars,
    searchVars,
    tickerSearchVars,
    ingestVars,
    batchVars,
    robustVars>>
nonResolverVars == <<pollVars, schedVars, indexVars, snapVars, signalVars, scrapeVars,
    groupVars,
    discoveryVars,
    hydrateVars,
    cliVars,
    engineVars,
    adapterVars,
    searchVars,
    tickerSearchVars,
    ingestVars,
    batchVars,
    robustVars>>
nonGroupVars == <<pollVars, schedVars, indexVars, snapVars, signalVars, scrapeVars, resolverVars,
    discoveryVars,
    hydrateVars,
    cliVars,
    engineVars,
    adapterVars,
    searchVars,
    tickerSearchVars,
    ingestVars,
    batchVars,
    robustVars>>
nonDiscoveryVars == <<pollVars, schedVars, indexVars, snapVars, signalVars, scrapeVars, resolverVars, groupVars,
    hydrateVars,
    cliVars,
    engineVars,
    adapterVars,
    searchVars,
    tickerSearchVars,
    ingestVars,
    batchVars,
    robustVars>>
nonHydrateVars == <<pollVars, schedVars, indexVars, snapVars, signalVars, scrapeVars, resolverVars, groupVars, discoveryVars,
    cliVars,
    engineVars,
    adapterVars,
    searchVars,
    tickerSearchVars,
    ingestVars,
    batchVars,
    robustVars>>
nonCliVars == <<pollVars, schedVars, indexVars, snapVars, signalVars, scrapeVars, resolverVars, groupVars, discoveryVars, hydrateVars,
    engineVars,
    adapterVars,
    searchVars,
    tickerSearchVars,
    ingestVars,
    batchVars,
    robustVars>>
nonEngineVars == <<pollVars, schedVars, indexVars, snapVars, signalVars, scrapeVars, resolverVars, groupVars, discoveryVars, hydrateVars, cliVars,
    adapterVars,
    searchVars,
    tickerSearchVars,
    ingestVars,
    batchVars,
    robustVars>>
nonAdapterVars == <<pollVars, schedVars, indexVars, snapVars, signalVars, scrapeVars, resolverVars, groupVars, discoveryVars, hydrateVars, cliVars, engineVars,
    searchVars,
    tickerSearchVars,
    ingestVars,
    batchVars,
    robustVars>>
nonSearchVars == <<pollVars, schedVars, indexVars, snapVars, signalVars, scrapeVars, resolverVars, groupVars, discoveryVars, hydrateVars, cliVars, engineVars, adapterVars,
    tickerSearchVars,
    ingestVars,
    batchVars,
    robustVars>>
nonTickerSearchVars == <<pollVars, schedVars, indexVars, snapVars, signalVars, scrapeVars, resolverVars, groupVars, discoveryVars, hydrateVars, cliVars, engineVars, adapterVars, searchVars,
    ingestVars,
    batchVars,
    robustVars>>
nonIngestVars == <<pollVars, schedVars, indexVars, snapVars, signalVars, scrapeVars, resolverVars, groupVars, discoveryVars, hydrateVars, cliVars, engineVars, adapterVars, searchVars, tickerSearchVars,
    batchVars,
    robustVars>>
nonBatchVars == <<pollVars, schedVars, indexVars, snapVars, signalVars, scrapeVars, resolverVars, groupVars, discoveryVars, hydrateVars, cliVars, engineVars, adapterVars, searchVars, tickerSearchVars, ingestVars,
    robustVars>>
nonRobustVars == <<pollVars, schedVars, indexVars, snapVars, signalVars, scrapeVars, resolverVars, groupVars, discoveryVars, hydrateVars, cliVars, engineVars, adapterVars, searchVars, tickerSearchVars, ingestVars, batchVars>>

\* =====================================================================
\* PollingEngine + StateManager
\* =====================================================================
None == "None"
NoRow == [absent |-> TRUE]
NoTask == [pc |-> "none"]

\* Tickers handed to PollingEngine(tickers=...).
Tickers == <<"NVDA", "RELIANCE.NS">>

\* str.endswith('.NS') on the tickers of the model.
EndsWithNS(t) == t \in {"RELIANCE.NS"}

Markets == <<"edgar", "nse">>

RECURSIVE SelectSeqBy(_, _, _)
SelectSeqBy(s, market, i) ==
    IF i > Len(s) THEN <<>>
    ELSE LET rest == SelectSeqBy(s, market, i + 1)
             inNse == EndsWithNS(s[i])
         IN IF (market = "nse") = inNse THEN <<s[i]>> \o rest ELSE rest

\* MarketRegistry.group_tickers_by_market
group_tickers_by_market(tickers) ==
    [m \in {"edgar", "nse"} |-> SelectSeqBy(tickers, m, 1)]

\* The filings an adapter can return.  Two edgar filings share accession
\* "A1" with different filing dates; one has no accession (malformed);
\* the nse filing "B1" has neither a filing_obj nor a filing_date.
Accessions == {"A1", "B1"}

FilingsOf(market) ==
    IF market = "edgar"
    THEN { [accession_number |-> "A1", ticker |-> "NVDA",
            filing_date |-> "2024-11-20", filing_obj |-> TRUE],
           [accession_number |-> "A1", ticker |-> "NVDA",
            filing_date |-> "2024-11-21", filing_obj |-> TRUE],
           [accession_number |-> None, ticker |-> "NVDA",
            filing_date |-> "2024-11-20", filing_obj |-> TRUE] }
    ELSE { [accession_number |-> "B1", ticker |-> "RELIANCE.NS",
            filing_date |-> None, filing_obj |-> FALSE] }

TaskIds == 1..MaxTasks

\* ThreadPoolExecutor(max_workers=self.max_workers): the constructor
\* argument of the model.
max_workers == 2

Running == {t \in TaskIds : tasks[t].pc \notin {"none", "queued", "done"}}

NewTask(f) ==
    [pc |-> "queued", filing |-> f, outcome |-> "pending",
     fetch |-> "none", marked |-> FALSE]

\* Variant of is_processed whose lookup never finds the row.
is_processed_never(accession) == FALSE

\* StateManager.is_processed
is_processed(accession) == processed[accession] # NoRow

\* Variant of mark_processed with INSERT OR REPLACE in place of INSERT OR
\* IGNORE.
mark_processed_replace(accession, ticker, filing_date, dbOk) ==
    IF dbOk
    THEN [processed EXCEPT ![accession] =
            [ticker |-> ticker, filing_date |-> filing_date,
             processed_at |-> cycle]]
    ELSE processed

\* StateManager.mark_processed: INSERT OR IGNORE by primary key; a write
\* failure (dbOk = FALSE) is printed and swallowed.
mark_processed(accession, ticker, filing_date, dbOk) ==
    IF dbOk /\ processed[accession] = NoRow
    THEN [processed EXCEPT ![accession] =
            [ticker |-> ticker, filing_date |-> filing_date,
             processed_at |-> cycle]]
    ELSE processed

\* StateManager.get_processed_count
get_processed_count == Cardinality({a \in Accessions : processed[a] # NoRow})

PollInit ==
    /\ cycle = 0
    /\ runPc = "idle"
    /\ group = 0
    /\ tasks = [t \in TaskIds |-> NoTask]
    /\ processed = [a \in Accessions |-> NoRow]
    /\ extractCalls = [a \in Accessions |-> 0]
    /\ lastExtract = [a \in Accessions |-> 0]
    /\ lastWrite = [a \in Accessions |-> 0]

\* run_once, entry: the ticker list is not empty; group the tickers.
RunOnceBegin ==
    /\ runPc = "idle"
    /\ cycle < MaxCycles
    /\ Len(Tickers) > 0
    /\ cycle' = cycle + 1
    /\ runPc' = "query"
    /\ group' = 1
    /\ extractCalls' = [a \in Accessions |-> 0]
    /\ UNCHANGED <<tasks, processed, lastExtract, lastWrite>>
    /\ UNCHANGED nonPollVars

\* The loop step "next group" of run_once, or its return after the last.
NextGroup ==
    IF group < Len(Markets)
    THEN group' = group + 1 /\ runPc' = "query"
    ELSE group' = 0 /\ runPc' = "idle"

\* run_once, one iteration of the loop over the groups up to the submit:
\* an empty group is skipped; get_latest_filings raises (logged, continue),
\* returns nothing (continue) or returns filings, all submitted to the pool.
QueryGroup ==
    /\ runPc = "query"
    /\ LET market == Markets[group]
           market_tickers == group_tickers_by_market(Tickers)[market]
       IN IF Len(market_tickers) = 0
          THEN NextGroup /\ UNCHANGED tasks
          ELSE \/ \* get_latest_filings raised
                  NextGroup /\ UNCHANGED tasks
               \/ \* not filings
                  NextGroup /\ UNCHANGED tasks
               \/ \E n \in 1..MaxTasks :
                  \E fs \in [1..n -> FilingsOf(market)] :
                     /\ tasks' = [t \in TaskIds |->
                                    IF t <= n THEN NewTask(fs[t]) ELSE NoTask]
                     /\ runPc' = "pool"
                     /\ UNCHANGED group
    /\ UNCHANGED <<cycle, processed, extractCalls, lastExtract, lastWrite>>
    /\ UNCHANGED nonPollVars

\* _process_filing up to the is_processed test: a pool thread picks the
\* task up, validates the filing and asks the state store.
TaskBegin(t) ==
    /\ runPc = "pool"
    /\ tasks[t].pc = "queued"
    /\ Cardinality(Running) < max_workers
    /\ LET f == tasks[t].filing
       IN tasks' = [tasks EXCEPT ![t] =
            IF f.accession_number = None \/ f.ticker = None
            THEN [@ EXCEPT !.pc = "done", !.outcome = "malformed"]
            ELSE IF is_processed(f.accession_number)
            THEN [@ EXCEPT !.pc = "done", !.outcome = "skipped"]
            ELSE IF f.filing_obj
            THEN [@ EXCEPT !.pc = "fetch"]
            ELSE [@ EXCEPT !.pc = "mark"]]
    /\ UNCHANGED <<cycle, runPc, group, processed, extractCalls,
                   lastExtract, lastWrite>>
    /\ UNCHANGED nonPollVars

\* Variant of AfterFetch that goes on to the extractor whatever the
\* fetch gave.
AfterFetch_extract(r) == "extract"

\* _process_filing, lines 56-75: `if text_content:` leads to the
\* extractor; no text, or the caught exception (text_content = None),
\* leads past it to mark_processed.
AfterFetch(r) == IF r = "text" THEN "extract" ELSE "mark"

\* client.get_filing_text: text, no text, or an exception that is caught
\* (text_content = None).
TaskFetch(t) ==
    /\ tasks[t].pc = "fetch"
    /\ \E r \in {"text", "empty", "raised"} :
         tasks' = [tasks EXCEPT ![t] =
            [@ EXCEPT !.fetch = r, !.pc = AfterFetch(r)]]
    /\ UNCHANGED <<cycle, runPc, group, processed, extractCalls,
                   lastExtract, lastWrite>>
    /\ UNCHANGED nonPollVars

\* Variant of AfterExtract in which an exception of the extractor is
\* caught on the spot and the task goes on to mark_processed.
AfterExtract_mark(task, ok) ==
    [task EXCEPT !.pc = IF ok THEN "save" ELSE "mark"]

\* _process_filing, lines 67-70 and 84-85: a returned report goes on to
\* _save_report; an exception leaves the try block for the outer except,
\* which ends the task.
AfterExtract(task, ok) ==
    IF ok THEN [task EXCEPT !.pc = "save"]
    ELSE [task EXCEPT !.pc = "done", !.outcome = "extract_raised"]

\* self.extractor.extract_from_text: returns a report or raises; the
\* exception reaches the outer except of _process_filing.
TaskExtract(t) ==
    /\ tasks[t].pc = "extract"
    /\ LET a == tasks[t].filing.accession_number
       IN /\ extractCalls' = [extractCalls EXCEPT ![a] = @ + 1]
          /\ lastExtract' = [lastExtract EXCEPT ![a] = cycle]
    /\ \E ok \in BOOLEAN :
         tasks' = [tasks EXCEPT ![t] = AfterExtract(@, ok)]
    /\ UNCHANGED <<cycle, runPc, group, processed, lastWrite>>
    /\ UNCHANGED nonPollVars

\* Variant of AfterSave in which an exception of the file write is
\* caught on the spot and the task goes on to mark_processed.
AfterSave_mark(task, ok) ==
    [task EXCEPT !.pc = IF ok THEN "notify" ELSE "mark"]

\* _process_filing, lines 70 and 84-85: after the file is written
\* _save_report goes on to the notifier; an exception of makedirs, open
\* or write leaves the try block for the outer except, which ends the
\* task.
AfterSave(task, ok) ==
    IF ok THEN [task EXCEPT !.pc = "notify"]
    ELSE [task EXCEPT !.pc = "done", !.outcome = "write_raised"]

\* _save_report, the file: written, or open/makedirs raises.
TaskSave(t) ==
    /\ tasks[t].pc = "save"
    /\ LET a == tasks[t].filing.accession_number
       IN \E ok \in BOOLEAN :
            /\ lastWrite' = IF ok THEN [lastWrite EXCEPT ![a] = cycle]
                            ELSE lastWrite
            /\ tasks' = [tasks EXCEPT ![t] = AfterSave(@, ok)]
    /\ UNCHANGED <<cycle, runPc, group, processed, extractCalls, lastExtract>>
    /\ UNCHANGED nonPollVars

\* _save_report, the alert: NotificationClient.send catches its own
\* errors and returns a boolean that the caller ignores.
TaskNotify(t) ==
    /\ tasks[t].pc = "notify"
    /\ tasks' = [tasks EXCEPT ![t] = [@ EXCEPT !.pc = "mark"]]
    /\ UNCHANGED <<cycle, runPc, group, processed, extractCalls,
                   lastExtract, lastWrite>>
    /\ UNCHANGED nonPollVars

\* _process_filing, lines 77-82: a missing filing_date becomes "", then
\* state.mark_processed.
TaskMark(t) ==
    /\ tasks[t].pc = "mark"
    /\ LET f == tasks[t].filing
           filing_date == IF f.filing_date = None THEN "" ELSE f.filing_date
       IN \E dbOk \in BOOLEAN :
            processed' = mark_processed(f.accession_number, f.ticker,
                                        filing_date, dbOk)
    /\ tasks' = [tasks EXCEPT ![t] =
            [@ EXCEPT !.pc = "done", !.outcome = "processed", !.marked = TRUE]]
    /\ UNCHANGED <<cycle, runPc, group, extractCalls, lastExtract, lastWrite>>
    /\ UNCHANGED nonPollVars

\* Variant of AllFuturesDone that waits only until every future has
\* been picked up by a pool thread.
AllFuturesDone_started == \A t \in TaskIds : tasks[t].pc # "queued"

\* run_once, lines 124-136: as_completed has yielded every future and
\* the with block has joined the pool.
AllFuturesDone == \A t \in TaskIds : tasks[t].pc \in {"none", "done"}

\* run_once, end of the with block: every future has completed.
PoolDone ==
    /\ runPc = "pool"
    /\ AllFuturesDone
    /\ tasks' = [t \in TaskIds |-> NoTask]
    /\ NextGroup
    /\ UNCHANGED <<cycle, processed, extractCalls, lastExtract, lastWrite>>
    /\ UNCHANGED nonPollVars

PollStep ==
    \/ RunOnceBegin
    \/ QueryGroup
    \/ \E t \in TaskIds : TaskBegin(t)
    \/ \E t \in TaskIds : TaskFetch(t)
    \/ \E t \in TaskIds : TaskExtract(t)
    \/ \E t \in TaskIds : TaskSave(t)
    \/ \E t \in TaskIds : TaskNotify(t)
    \/ \E t \in TaskIds : TaskMark(t)
    \/ PoolDone

\* =====================================================================
\* PollingEngine.start_scheduled: the APScheduler job "polling_job"
\* =====================================================================

\* Variant of the job option with one more instance allowed.
max_instances_two == 1 + 1

\* scheduler.add_job(..., max_instances=1, ...)
max_instances == 1

SchedInit ==
    /\ schedPc = "init"
    /\ misfire_grace = None
    /\ ticks = 0
    /\ submitted = 0
    /\ running = 0
    /\ sched_events = <<>>
    /\ missed = 0
    /\ errors = 0
    /\ maxSkipped = 0
    /\ listenerRaised = 0

\* StateManager.record_scheduler_event: append one row.
record_scheduler_event(event_type) == Append(sched_events, event_type)

\* _log_scheduler_event, the listener for EVENT_JOB_ERROR | EVENT_JOB_MISSED.
\* With event.exception set it only logs.  Otherwise it logs and evaluates
\* self.state.record_scheduler_event(...): PollingEngine has no attribute
\* "state" (the store handle is self._state_local.state, reached through
\* _get_state_manager), so the call raises AttributeError before any row
\* is written; the scheduler catches and logs what a listener raises.
\* The result is the table and whether the listener raised.
log_scheduler_event(has_exception) ==
    IF has_exception
    THEN [events |-> sched_events, raised |-> FALSE]
    ELSE [events |-> sched_events, raised |-> TRUE]

\* start_scheduled up to the immediate self.run_once(): the arguments are
\* valid, the listener and the job are registered, the startup cycle
\* begins on the calling thread.
StartScheduled ==
    /\ schedPc = "init"
    /\ \E g \in {None, "set"} : misfire_grace' = g
    /\ schedPc' = "startup"
    /\ UNCHANGED <<ticks, submitted, running, sched_events, missed, errors,
                   maxSkipped, listenerRaised>>
    /\ UNCHANGED nonSchedVars

\* The startup run_once ends: it returns and scheduler.start() begins, an
\* exception leaves start_scheduled, or KeyboardInterrupt shuts down.
StartupEnd ==
    /\ schedPc = "startup"
    /\ \E r \in {"returned", "raised", "interrupt"} :
         schedPc' = CASE r = "returned" -> "started"
                      [] r = "raised" -> "crashed"
                      [] OTHER -> "shutdown"
    /\ UNCHANGED <<misfire_grace, ticks, submitted, running, sched_events,
                   missed, errors, maxSkipped, listenerRaised>>
    /\ UNCHANGED nonSchedVars

\* A run time of polling_job comes due in the scheduler loop: the executor
\* refuses the job when max_instances instances are in flight (the
\* scheduler dispatches EVENT_JOB_MAX_INSTANCES, for which no listener is
\* registered), else takes it.
Tick ==
    /\ schedPc = "started"
    /\ ticks < MaxTicks
    /\ ticks' = ticks + 1
    /\ IF submitted + running >= max_instances
       THEN maxSkipped' = maxSkipped + 1 /\ UNCHANGED submitted
       ELSE submitted' = submitted + 1 /\ UNCHANGED maxSkipped
    /\ UNCHANGED <<schedPc, misfire_grace, running, sched_events, missed,
                   errors, listenerRaised>>
    /\ UNCHANGED nonSchedVars

\* The executor thread picks the instance up: later than the grace time
\* (only with misfire_grace_time set) it is dropped with EVENT_JOB_MISSED,
\* for which the listener runs; else run_once begins.
JobStart ==
    /\ submitted > 0
    /\ submitted' = submitted - 1
    /\ \E late \in BOOLEAN :
         IF late /\ misfire_grace # None
         THEN LET r == log_scheduler_event(FALSE)
              IN /\ missed' = missed + 1
                 /\ sched_events' = r.events
                 /\ listenerRaised' =
                        listenerRaised + (IF r.raised THEN 1 ELSE 0)
                 /\ UNCHANGED running
         ELSE /\ running' = running + 1
              /\ UNCHANGED <<missed, sched_events, listenerRaised>>
    /\ UNCHANGED <<schedPc, misfire_grace, ticks, errors, maxSkipped>>
    /\ UNCHANGED nonSchedVars

\* The job's run_once ends: normally (EVENT_JOB_EXECUTED, no listener) or
\* with an exception (EVENT_JOB_ERROR, for which the listener runs).
JobEnd ==
    /\ running > 0
    /\ running' = running - 1
    /\ \E raised \in BOOLEAN :
         IF raised
         THEN LET r == log_scheduler_event(TRUE)
              IN /\ errors' = errors + 1
                 /\ sched_events' = r.events
                 /\ listenerRaised' =
                        listenerRaised + (IF r.raised THEN 1 ELSE 0)
         ELSE UNCHANGED <<errors, sched_events, listenerRaised>>
    /\ UNCHANGED <<schedPc, misfire_grace, ticks, submitted, missed,
                   maxSkipped>>
    /\ UNCHANGED nonSchedVars

\* KeyboardInterrupt in scheduler.start(): scheduler.shutdown().
Interrupt ==
    /\ schedPc = "started"
    /\ schedPc' = "shutdown"
    /\ UNCHANGED <<misfire_grace, ticks, submitted, running, sched_events,
                   missed, errors, maxSkipped, listenerRaised>>
    /\ UNCHANGED nonSchedVars

SchedStep ==
    \/ StartScheduled
    \/ StartupEnd
    \/ Tick
    \/ JobStart
    \/ JobEnd
    \/ Interrupt

\* =====================================================================
\* MarketIndex: market_metadata and the full-text table market_fts
\* =====================================================================
EventIds == {"e1", "e2"}

\* datetime.isoformat() on the end dates of the model.
isoformat(dt) ==
    CASE dt = <<2025, 3, 19>> -> "2025-03-19T00:00:00"
      [] dt = <<2025, 12, 31>> -> "2025-12-31T00:00:00"
      [] dt = <<2025, 1, 1, 9, 30, 0>> -> "2025-01-01T09:30:00"
      [] dt = <<2025, 1, 1, 9, 30, 0, 250>> -> "2025-01-01T09:30:00.000250"

\* The MarketMetadata values handed to upsert_markets: two versions of
\* e1 and of e2 that differ in every field.
MarketInputs ==
    { [event_id |-> "e1", market_id |-> "m1", title |-> "Fed cut",
       description |-> None, slug |-> None, tags |-> "macro",
       volume_usd |-> 10, end_date |-> None],
      [event_id |-> "e1", market_id |-> "m1b", title |-> "Fed cut in March",
       description |-> "FOMC", slug |-> "fed-cut", tags |-> "rates",
       volume_usd |-> 20, end_date |-> <<2025, 3, 19>>],
      [event_id |-> "e2", market_id |-> "m2", title |-> "BTC 100k",
       description |-> "Bitcoin", slug |-> "btc", tags |-> "crypto",
       volume_usd |-> 5, end_date |-> <<2025, 12, 31>>],
      [event_id |-> "e2", market_id |-> "", title |-> "BTC over 100k",
       description |-> None, slug |-> None, tags |-> "",
       volume_usd |-> 7, end_date |-> None] }

\* Variant of UpsertMetadata that replaces the whole row on a conflict
\* (INSERT OR REPLACE).
UpsertMetadata_replace(meta, m) ==
    [meta EXCEPT ![m.event_id] =
        [market_id |-> m.market_id, title |-> m.title,
         description |-> m.description, slug |-> m.slug,
         tags |-> m.tags, volume_usd |-> m.volume_usd,
         end_date |-> IF m.end_date = None THEN None
                      ELSE isoformat(m.end_date)]]

\* Statement 1 of the loop body: INSERT ... ON CONFLICT(event_id) DO UPDATE
\* SET volume_usd, title.
UpsertMetadata(meta, m) ==
    IF meta[m.event_id] = NoRow
    THEN [meta EXCEPT ![m.event_id] =
            [market_id |-> m.market_id, title |-> m.title,
             description |-> m.description, slug |-> m.slug,
             tags |-> m.tags, volume_usd |-> m.volume_usd,
             end_date |-> IF m.end_date = None THEN None
                          ELSE isoformat(m.end_date)]]
    ELSE [meta EXCEPT ![m.event_id] =
            [@ EXCEPT !.volume_usd = m.volume_usd, !.title = m.title]]

\* Statement 2: DELETE FROM market_fts WHERE event_id = ?
DeleteFts(fts, event_id) ==
    [r \in {x \in BagToSet(fts) : x.event_id # event_id} |-> fts[r]]

\* Statement 3: INSERT INTO market_fts (event_id, title, description, tags,
\* slug) with description or "" and slug or "".
InsertFts(fts, m) ==
    fts (+) SetToBag({[event_id |-> m.event_id, title |-> m.title,
                       description |-> IF m.description = None THEN ""
                                       ELSE m.description,
                       tags |-> m.tags,
                       slug |-> IF m.slug = None THEN "" ELSE m.slug]})

\* The k-th statement of the batch, three per market.
ExecStatement(db, markets, k) ==
    LET m == markets[((k - 1) \div 3) + 1]
        j == ((k - 1) % 3) + 1
    IN CASE j = 1 -> [db EXCEPT !.meta = UpsertMetadata(db.meta, m)]
         [] j = 2 -> [db EXCEPT !.fts = DeleteFts(db.fts, m.event_id)]
         [] j = 3 -> [db EXCEPT !.fts = InsertFts(db.fts, m)]

\* The statements k.. of the batch on the connection's open transaction;
\* statement failAt raises (failAt = 3n+1: conn.commit() raises; 0: none).
\* count is incremented after the third statement of each market.
RECURSIVE RunStatements(_, _, _, _)
RunStatements(db, markets, k, failAt) ==
    IF k = failAt
    THEN [db |-> db, raised |-> TRUE, count |-> (k - 1) \div 3]
    ELSE IF k > 3 * Len(markets)
    THEN [db |-> db, raised |-> FALSE, count |-> Len(markets)]
    ELSE RunStatements(ExecStatement(db, markets, k), markets, k + 1, failAt)

\* Variant of TransactionEnd that keeps the statements executed before the
\* exception.
TransactionEnd_keep(before, r) == r.db

\* "with sqlite3.connect(...) as conn": the connection's context manager
\* commits when the block ends normally and rolls back when it raises.
TransactionEnd(before, r) == IF r.raised THEN before ELSE r.db

IndexInit ==
    /\ market_metadata = [e \in EventIds |-> NoRow]
    /\ market_fts = EmptyBag
    /\ upsert_result = [called |-> FALSE]

\* MarketIndex.upsert_markets(markets)
upsert_markets ==
    \E n \in 1..MaxBatch :
    \E markets \in [1..n -> MarketInputs] :
    \E failAt \in 0..(3 * n + 1) :
       LET before == [meta |-> market_metadata, fts |-> market_fts]
           r == RunStatements(before, markets, 1, failAt)
           after == TransactionEnd(before, r)
       IN /\ market_metadata' = after.meta
          /\ market_fts' = after.fts
          /\ upsert_result' = [called |-> TRUE, raised |-> r.raised,
                               count |-> r.count, n |-> n,
                               ids |-> {markets[i].event_id : i \in 1..n}]
          /\ UNCHANGED nonIndexVars

IndexStep == upsert_markets

\* =====================================================================
\* TimeSeriesPersistence: the snapshot table macro_probabilities
\* =====================================================================

\* The MacroEvent values handed to the store: e1 twice at the same
\* timestamp with different probabilities, e1 at a second timestamp, e2
\* twice at the first timestamp.
SnapshotEvents ==
    { [event_id |-> "e1", timestamp |-> <<2025, 1, 1, 9, 30, 0>>,
       probability_yes |-> 42],
      [event_id |-> "e1", timestamp |-> <<2025, 1, 1, 9, 30, 0>>,
       probability_yes |-> 58],
      [event_id |-> "e1", timestamp |-> <<2025, 1, 1, 9, 30, 0, 250>>,
       probability_yes |-> 42],
      [event_id |-> "e2", timestamp |-> <<2025, 1, 1, 9, 30, 0>>,
       probability_yes |-> 50],
      [event_id |-> "e2", timestamp |-> <<2025, 1, 1, 9, 30, 0>>,
       probability_yes |-> 70] }

SnapshotRow(event) ==
    [event_id |-> event.event_id,
     timestamp |-> isoformat(event.timestamp),
     probability_yes |-> event.probability_yes]

\* Variant of UniqueViolation without the UNIQUE(event_id, timestamp)
\* constraint.
UniqueViolation_off(table, row) == FALSE

\* UNIQUE(event_id, timestamp) of macro_probabilities: the INSERT raises
\* sqlite3.IntegrityError.
UniqueViolation(table, row) ==
    \E r \in BagToSet(table) :
        r.event_id = row.event_id /\ r.timestamp = row.timestamp

\* TimeSeriesPersistence.save_snapshot on a table value: the INSERT and
\* commit add the row and the call returns True; IntegrityError returns
\* False; any other exception (dbOk = FALSE) returns False, no row added.
save_snapshot(table, event, dbOk) ==
    LET row == SnapshotRow(event)
    IN IF ~dbOk THEN [table |-> table, ret |-> FALSE]
       ELSE IF UniqueViolation(table, row) THEN [table |-> table, ret |-> FALSE]
       ELSE [table |-> table (+) SetToBag({row}), ret |-> TRUE]

\* TimeSeriesPersistence.save_batch: save_snapshot per event, counting the
\* True results; failing is the set of positions whose write fails.
RECURSIVE save_batch(_, _, _, _)
save_batch(table, events, i, failing) ==
    IF i > Len(events) THEN [table |-> table, ret |-> 0]
    ELSE LET one == save_snapshot(table, events[i], i \notin failing)
             rest == save_batch(one.table, events, i + 1, failing)
         IN [table |-> rest.table,
             ret |-> rest.ret + (IF one.ret THEN 1 ELSE 0)]

SnapInit ==
    /\ macro_probabilities = EmptyBag
    /\ snap_result = [op |-> "none"]

\* A call of save_snapshot(event).
SaveSnapshot ==
    \E event \in SnapshotEvents : \E dbOk \in BOOLEAN :
       LET r == save_snapshot(macro_probabilities, event, dbOk)
       IN /\ macro_probabilities' = r.table
          /\ snap_result' =
               [op |-> "save_snapshot", ret |-> r.ret,
                added |-> BagCardinality(r.table)
                            - BagCardinality(macro_probabilities)]
          /\ UNCHANGED nonSnapVars

\* A call of save_batch(events).
SaveBatch ==
    \E n \in 1..MaxSnapBatch :
    \E events \in [1..n -> SnapshotEvents] :
    \E failing \in SUBSET (1..n) :
       LET r == save_batch(macro_probabilities, events, 1, failing)
       IN /\ macro_probabilities' = r.table
          /\ snap_result' =
               [op |-> "save_batch", ret |-> r.ret,
                dups |-> \E i, j \in 1..n :
                           /\ i < j
                           /\ events[i].event_id = events[j].event_id
                           /\ events[i].timestamp = events[j].timestamp,
                added |-> BagCardinality(r.table)
                            - BagCardinality(macro_probabilities)]
          /\ UNCHANGED nonSnapVars

SnapStep == SaveSnapshot \/ SaveBatch

\* =====================================================================
\* SignalStore: the TTL cache over the tables entities and signals
\* =====================================================================
SignalTickers == {"AAPL", "TSLA"}
Providers == {"hiring", "shipping"}
Callers == {"c1", "c2"}

\* The argument lists of the save_signal calls of the model.
SaveInputs ==
    { [ticker |-> "AAPL", provider |-> "hiring",
       payload |-> [ticker |-> "AAPL", signal |-> "High Expansion"],
       canonical_name |-> None],
      [ticker |-> "AAPL", provider |-> "hiring",
       payload |-> [ticker |-> "AAPL", signal |-> "Normal"],
       canonical_name |-> "Apple Inc."],
      [ticker |-> "AAPL", provider |-> "shipping",
       payload |-> [ticker |-> "AAPL", signal |-> "Low"],
       canonical_name |-> None],
      [ticker |-> "TSLA", provider |-> "hiring",
       payload |-> [ticker |-> "TSLA", signal |-> "Normal"],
       canonical_name |-> None] }

\* SignalStore(ttl_hours=...), in clock units of the model.
ttl_hours == 2

\* The JSON column raw_payload: serialised on write, parsed on read.
json_dumps(payload) == <<"json", payload.ticker, payload.signal>>
json_loads(text) == [ticker |-> text[2], signal |-> text[3]]

Idle == [pc |-> "idle"]

\* NULL in a DateTime column / a null result.
Null == [null |-> TRUE]

\* session.query(Entity).filter(Entity.ticker == ticker).first(): the id
\* of the row, or 0.
EntityIdOf(ticker) ==
    IF \E i \in DOMAIN entities : entities[i].ticker = ticker
    THEN CHOOSE i \in DOMAIN entities : entities[i].ticker = ticker
    ELSE 0

\* Variant of IsFresh with the TTL bound included.
IsFresh_inclusive(read_at, timestamp) == read_at - timestamp <= ttl_hours

\* datetime.utcnow() - latest.timestamp < timedelta(hours=self.ttl_hours)
IsFresh(read_at, timestamp) == read_at - timestamp < ttl_hours

\* The rows get_latest_signal's second query can return first: those of
\* the entity and provider with the greatest timestamp.
LatestRows(entity_id, provider) ==
    LET mine == {i \in DOMAIN signals :
                   /\ signals[i].entity_id = entity_id
                   /\ signals[i].provider = provider}
    IN {i \in mine : \A j \in mine : signals[j].timestamp <= signals[i].timestamp}

\* Variant of UpdateEntity that leaves last_scraped_at alone.
UpdateEntity_nostamp(row, at, canonical_name) ==
    [row EXCEPT !.canonical_name =
                  IF canonical_name # None THEN canonical_name ELSE @]

\* save_signal, lines 78-80: entity.last_scraped_at and, when given,
\* entity.canonical_name.
UpdateEntity(row, at, canonical_name) ==
    [row EXCEPT !.last_scraped_at = [at |-> at],
                !.canonical_name =
                  IF canonical_name # None THEN canonical_name ELSE @]

NoGet == [called |-> FALSE]

SignalInit ==
    /\ entities = <<>>
    /\ signals = <<>>
    /\ now = 0
    /\ calls = [c \in Callers |-> Idle]
    /\ saveLog = <<>>
    /\ nSaves = 0
    /\ lastGet = NoGet

\* Time passes.
AdvanceClock ==
    /\ now < MaxTime
    /\ now' = now + 1
    /\ lastGet' = NoGet
    /\ UNCHANGED <<entities, signals, calls, saveLog, nSaves>>
    /\ UNCHANGED nonSignalVars

\* save_signal, lines 58-62: the call begins and looks the entity up.
SaveSignalBegin(c) ==
    /\ calls[c].pc = "idle"
    /\ nSaves < MaxSaves
    /\ nSaves' = nSaves + 1
    /\ \E a \in SaveInputs :
         calls' = [calls EXCEPT ![c] =
            [pc |-> IF EntityIdOf(a.ticker) = 0 THEN "create" ELSE "signal",
             ticker |-> a.ticker, provider |-> a.provider,
             payload |-> a.payload, canonical_name |-> a.canonical_name,
             entity_id |-> EntityIdOf(a.ticker), created |-> FALSE]]
    /\ lastGet' = NoGet
    /\ UNCHANGED <<entities, signals, now, saveLog>>
    /\ UNCHANGED nonSignalVars

\* save_signal, lines 63-66: add the entity and commit.  The unique index
\* on ticker refuses a second row (IntegrityError leaves save_signal
\* through the finally).
SaveSignalCreate(c) ==
    /\ calls[c].pc = "create"
    /\ LET k == calls[c]
       IN IF EntityIdOf(k.ticker) # 0
          THEN /\ calls' = [calls EXCEPT ![c] = Idle]
               /\ UNCHANGED entities
          ELSE /\ entities' = Append(entities,
                    [ticker |-> k.ticker,
                     canonical_name |-> IF k.canonical_name # None
                                        THEN k.canonical_name ELSE k.ticker,
                     last_scraped_at |-> Null])
               /\ calls' = [calls EXCEPT ![c] =
                    [k EXCEPT !.pc = "signal",
                              !.entity_id = Len(entities) + 1,
                              !.created = TRUE]]
    /\ lastGet' = NoGet
    /\ UNCHANGED <<signals, now, saveLog, nSaves>>
    /\ UNCHANGED nonSignalVars

\* save_signal, lines 69-86: the signal row stamped utcnow(), the entity
\* update and the commit of both, or a commit that raises and writes
\* nothing.  The call has taken time when it returns.
SaveSignalCommit(c) ==
    /\ calls[c].pc = "signal"
    /\ now < MaxTime
    /\ LET k == calls[c]
       IN \E ok \in BOOLEAN :
            IF ok
            THEN /\ signals' = Append(signals,
                      [entity_id |-> k.entity_id, provider |-> k.provider,
                       raw_payload |-> json_dumps(k.payload),
                       timestamp |-> now])
                 /\ entities' = [entities EXCEPT ![k.entity_id] =
                      UpdateEntity(@, now, k.canonical_name)]
                 /\ saveLog' = Append(saveLog,
                      [ticker |-> k.ticker, provider |-> k.provider,
                       payload |-> k.payload, timestamp |-> now,
                       created |-> k.created])
            ELSE UNCHANGED <<signals, entities, saveLog>>
    /\ calls' = [calls EXCEPT ![c] = Idle]
    /\ now' = now + 1
    /\ lastGet' = NoGet
    /\ UNCHANGED nSaves
    /\ UNCHANGED nonSignalVars

\* SignalStore.get_latest_signal(ticker, provider)
get_latest_signal ==
    /\ \E ticker \in SignalTickers, provider \in Providers :
         LET id == EntityIdOf(ticker)
             rows == IF id = 0 THEN {} ELSE LatestRows(id, provider)
         IN IF rows = {}
            THEN lastGet' = [called |-> TRUE, ticker |-> ticker,
                             provider |-> provider, at |-> now,
                             seen |-> Len(saveLog), ret |-> Null]
            ELSE \E i \in rows :
                   lastGet' = [called |-> TRUE, ticker |-> ticker,
                               provider |-> provider, at |-> now,
                               seen |-> Len(saveLog),
                               ret |-> IF IsFresh(now, signals[i].timestamp)
                                       THEN json_loads(signals[i].raw_payload)
                                       ELSE Null]
    /\ UNCHANGED <<entities, signals, now, calls, saveLog, nSaves>>
    /\ UNCHANGED nonSignalVars

SignalStep ==
    \/ AdvanceClock
    \/ \E c \in Callers : SaveSignalBegin(c)
    \/ \E c \in Callers : SaveSignalCreate(c)
    \/ \E c \in Callers : SaveSignalCommit(c)
    \/ get_latest_signal

\* =====================================================================
\* Scrapers: the read-through queries of HiringScraper, ShippingScraper,
\* DigitalScraper and SocialScraper over one SignalStore
\* =====================================================================
ScrapeTickers == {"NVDA", "TSLA"}
ScrapeProviders == {"hiring", "shipping", "digital", "social"}

\* Settings.social_scraper_type: the default and the other value.
default_social_scraper_type == "modern"
SocialScraperTypes == {"modern", "legacy"}

\* The JSON column raw_payload for payloads of any key set: the object
\* text holds the key/value pairs, parsing rebuilds the dict from them.
dumps_payload(p) == {<<k, p[k]>> : k \in DOMAIN p}
loads_payload(text) ==
    [k \in {e[1] : e \in text} |-> (CHOOSE e \in text : e[1] = k)[2]]

\* What the upstream collector of a provider can yield for the signal
\* field of the result.
UpstreamSignals(provider) ==
    CASE provider = "hiring" -> {"High Expansion", "Normal"}
      [] provider = "shipping" -> {"High", "Low"}
      [] provider = "digital" -> {"Viral", "Steady"}
      [] provider = "social" -> {"Bullish", "Bearish"}

\* The result dicts built from the collected data (the keys a caller
\* reads; numbers are kept as their JSON text).
HiringResult(ticker, s) == [ticker |-> ticker, signal |-> s]
ShippingResult(ticker, s) ==
    [ticker |-> ticker, consignee_name |-> ticker, signal_strength |-> s]
DigitalResult(ticker, s) ==
    [ticker |-> ticker, metric |-> "App Store Rank", signal |-> s]
ModernResult(ticker, score, s) ==
    [ticker |-> ticker, metric |-> "Social Sentiment",
     sentiment_score |-> score, signal |-> s, provider |-> "modern"]
ModernSimulated(ticker) == ModernResult(ticker, "0.72", "Bullish")
neutral_fallback(ticker) ==
    [ticker |-> ticker, metric |-> "Social Sentiment",
     sentiment_score |-> "0.5", signal |-> "Neutral"]
LegacyResult(ticker, total, compound, s) ==
    [ticker |-> ticker, metric |-> "Tweet Sentiment",
     total_tweets |-> total, avg_compound |-> compound, signal |-> s,
     provider |-> "legacy"]
\* positive_ratio = 32 / 50 = 0.64 > 0.6
LegacySimulated(ticker) == LegacyResult(ticker, "50", "0.18", "Bullish")
LegacyNoData(ticker) == LegacyResult(ticker, "0", "0.0", "Neutral")

\* The rows of (ticker, provider) with the greatest timestamp.
ScrapeLatest(ticker, provider) ==
    LET mine == {i \in DOMAIN sc_signals :
                   /\ sc_signals[i].ticker = ticker
                   /\ sc_signals[i].provider = provider}
    IN {i \in mine :
          \A j \in mine : sc_signals[j].timestamp <= sc_signals[i].timestamp}

\* store.get_latest_signal(ticker, provider) on the scrapers' store: the
\* values it can return.
CachedValues(ticker, provider) ==
    LET rows == ScrapeLatest(ticker, provider)
    IN IF rows = {}
       THEN {Null}
       ELSE {IF IsFresh(sc_now, sc_signals[i].timestamp)
             THEN loads_payload(sc_signals[i].raw_payload)
             ELSE Null : i \in rows}

\* store.save_signal(ticker, provider, result, ...) by a single caller:
\* the signal row stamped utcnow() with the serialised payload.
StoreSignal(rows, ticker, provider, payload, at) ==
    Append(rows, [ticker |-> ticker, provider |-> provider,
                  raw_payload |-> dumps_payload(payload),
                  timestamp |-> at])

\* What a query builds when its collector failed: scrape_jobs returns
\* {"jobs": [], "total_count": 0} (hiring.py lines 94-96) and the
\* velocity is 0, scrape_manifests returns [] (shipping.py lines 104-106)
\* and the volume is 0, get_app_rank_history returns one point of rank
\* 150 (digital.py lines 93-95).
PlaceholderResult(ticker, provider) ==
    CASE provider = "hiring" -> HiringResult(ticker, "Normal")
      [] provider = "shipping" -> ShippingResult(ticker, "Low")
      [] provider = "digital" -> DigitalResult(ticker, "Steady")

\* One pass through a scraper's query after the cache missed: what the
\* method does with the collector and the store.  upstream counts the
\* calls to the collector, saved tells whether save_signal was called,
\* failed whether the collector raised or returned nothing.  live is
\* config.use_live_requests, keys tells whether the API clients were
\* built.
MissOutcomes(ticker, provider, type, live, keys) ==
    IF provider \in {"hiring", "shipping", "digital"}
    THEN {[result |-> (CASE provider = "hiring" -> HiringResult(ticker, s)
                         [] provider = "shipping" -> ShippingResult(ticker, s)
                         [] provider = "digital" -> DigitalResult(ticker, s)),
           upstream |-> 1, saved |-> TRUE, failed |-> FALSE]
            : s \in UpstreamSignals(provider)}
         \cup {[result |-> PlaceholderResult(ticker, provider),
                upstream |-> 1, saved |-> TRUE, failed |-> TRUE]}
    ELSE IF type = "legacy"
    THEN IF ~live
         THEN {[result |-> LegacySimulated(ticker), upstream |-> 0,
                saved |-> TRUE, failed |-> FALSE]}
         ELSE {[result |-> LegacyResult(ticker, "40", "0.2", s),
                upstream |-> 1, saved |-> TRUE, failed |-> FALSE]
                 : s \in UpstreamSignals(provider)}
              \cup {\* _fetch_tweets returned no tweets
                    [result |-> LegacyNoData(ticker), upstream |-> 1,
                     saved |-> TRUE, failed |-> TRUE],
                    \* _fetch_tweets or _analyze_sentiment raised
                    [result |-> LegacyNoData(ticker), upstream |-> 1,
                     saved |-> FALSE, failed |-> TRUE]}
    ELSE IF ~live
         THEN {[result |-> ModernSimulated(ticker), upstream |-> 0,
                saved |-> TRUE, failed |-> FALSE]}
         ELSE IF ~keys
         THEN {[result |-> neutral_fallback(ticker), upstream |-> 0,
                saved |-> FALSE, failed |-> FALSE]}
         ELSE {[result |-> ModernResult(ticker, "0.8", s), upstream |-> 1,
                saved |-> TRUE, failed |-> FALSE]
                 : s \in UpstreamSignals(provider)}
              \cup {\* firecrawl, Gemini or the parse raised
                    [result |-> neutral_fallback(ticker), upstream |-> 1,
                     saved |-> FALSE, failed |-> TRUE]}

\* The settings a scraper of the provider is built with, as far as its
\* query depends on them: only the social scrapers branch on
\* social_scraper_type and use_live_requests inside the query.
ScraperConfigs(provider) ==
    IF provider = "social"
    THEN [type : SocialScraperTypes, live : BOOLEAN]
    ELSE {[type |-> default_social_scraper_type, live |-> FALSE]}

NoQuery == [called |-> FALSE]

ScrapeInit ==
    /\ sc_signals = <<>>
    /\ sc_now = 0
    /\ sc_hist = [k \in ScrapeTickers \X ScrapeProviders |-> Null]
    /\ sc_last = NoQuery
    /\ sc_queries = 0

\* Time passes.
ScrapeClock ==
    /\ sc_now < MaxScrapeTime
    /\ sc_now' = sc_now + 1
    /\ sc_last' = NoQuery
    /\ UNCHANGED <<sc_signals, sc_hist, sc_queries>>
    /\ UNCHANGED nonScrapeVars

\* A signal query served from the cache: `if cached: return cached`.
QueryHit ==
    /\ sc_queries < MaxQueries
    /\ \E ticker \in ScrapeTickers, provider \in ScrapeProviders :
         \E cfg \in ScraperConfigs(provider),
            cached \in CachedValues(ticker, provider) :
           /\ cached # Null
           /\ sc_last' = [called |-> TRUE, ticker |-> ticker,
                          provider |-> provider, type |-> cfg.type,
                          live |-> cfg.live, at |-> sc_now, hit |-> TRUE,
                          upstream |-> 0, saved |-> FALSE, raised |-> FALSE,
                          failed |-> FALSE, ret |-> cached,
                          prev |-> sc_hist[<<ticker, provider>>]]
    /\ sc_queries' = sc_queries + 1
    /\ UNCHANGED <<sc_signals, sc_now, sc_hist>>
    /\ UNCHANGED nonScrapeVars

\* A signal query that missed the cache: the collector, the result, the
\* save.  save_signal either commits the row or raises out of the
\* query (dbOk).
QueryMiss ==
    /\ sc_queries < MaxQueries
    /\ \E ticker \in ScrapeTickers, provider \in ScrapeProviders,
          dbOk \in BOOLEAN :
         /\ Null \in CachedValues(ticker, provider)
         /\ \E cfg \in ScraperConfigs(provider), keys \in BOOLEAN :
            \E o \in MissOutcomes(ticker, provider, cfg.type, cfg.live,
                                  keys) :
              LET raised == o.saved /\ ~dbOk
                  rec == [called |-> TRUE, ticker |-> ticker,
                          provider |-> provider, type |-> cfg.type,
                          live |-> cfg.live, at |-> sc_now, hit |-> FALSE,
                          upstream |-> o.upstream, saved |-> o.saved,
                          raised |-> raised, failed |-> o.failed,
                          ret |-> IF raised THEN Null ELSE o.result,
                          prev |-> sc_hist[<<ticker, provider>>]]
              IN /\ (o.saved \/ dbOk)
                 /\ sc_last' = rec
                 /\ sc_signals' =
                      IF o.saved /\ dbOk
                      THEN StoreSignal(sc_signals, ticker, provider,
                                       o.result, sc_now)
                      ELSE sc_signals
                 /\ sc_hist' =
                      IF raised THEN sc_hist
                      ELSE [sc_hist EXCEPT ![<<ticker, provider>>] =
                              [at |-> sc_now, result |-> o.result,
                               failed |-> o.failed]]
    /\ sc_queries' = sc_queries + 1
    /\ UNCHANGED sc_now
    /\ UNCHANGED nonScrapeVars

ScrapeStep ==
    \/ ScrapeClock
    \/ QueryHit
    \/ QueryMiss

\* =====================================================================
\* HybridResolver: load_entities and resolve
\* =====================================================================
\* Aliases and queries are sequences of characters, so that lower() and
\* strip() are computed on them.
LowerChar(c) ==
    CASE c = "H" -> "h"
      [] c = "G" -> "g"
      [] c = "P" -> "p"
      [] OTHER -> c

\* str.lower()
lower(s) == [i \in DOMAIN s |-> LowerChar(s[i])]

RECURSIVE lstrip(_)
lstrip(s) == IF s # <<>> /\ Head(s) = " " THEN lstrip(Tail(s)) ELSE s

RECURSIVE rstrip(_)
rstrip(s) ==
    IF s # <<>> /\ s[Len(s)] = " "
    THEN rstrip(SubSeq(s, 1, Len(s) - 1))
    ELSE s

\* str.strip()
strip(s) == rstrip(lstrip(s))

\* resolve, line 125: query.lower().strip()
query_norm(query) == strip(lower(query))

\* The entity lists passed to load_entities.
Corpora ==
    { << [name |-> "Foxconn", ticker |-> "2317.TW",
          aliases |-> << <<"H", "o", "n">>, <<"H", "h">> >>],
         [name |-> "Alphabet Inc.", ticker |-> "GOOG",
          aliases |-> << <<"G", "o", "o">> >>] >>,
      \* an alias written with a trailing blank
      << [name |-> "Foxconn", ticker |-> "2317.TW",
          aliases |-> << <<"H", "o", "n", " ">> >>] >>,
      \* the alias of the first list now names another entity
      << [name |-> "TSMC", ticker |-> "TSM",
          aliases |-> << <<"H", "o", "n">> >>] >>,
      << >> }

\* The query strings passed to resolve.
Queries ==
    { <<"H", "o", "n">>, <<"h", "o", "n">>, <<"H", "o", "n", " ">>,
      <<"G", "o", "o">>, <<"P", "i", "z">> }

\* Cosine scores in hundredths that the vector backend can give.
ScoreValues == {0, 20, 35, 36, 90}

\* if best_score_vec > 0.35, in hundredths
vector_threshold == 35

\* Variant of AboveThreshold with the threshold included.
AboveThreshold_inclusive(score) == score >= vector_threshold

\* resolve, line 176
AboveThreshold(score) == score > vector_threshold

\* load_entities, lines 103-111, after the first n entities: the lists
\* and dicts as the loop has filled them (a later entry of a key
\* overwrites an earlier one).
KnownOf(ents, n) == [i \in 1..n |-> ents[i].name]

EntityMapOf(ents, n) ==
    [nm \in {ents[i].name : i \in 1..n} |->
       LET last == CHOOSE i \in 1..n :
                     /\ ents[i].name = nm
                     /\ \A j \in 1..n : ents[j].name = nm => j <= i
       IN ents[last].ticker]

AliasEntries(ents, n) ==
    {<<i, j>> \in (1..n) \X (1..2) : j \in DOMAIN ents[i].aliases}

AliasMapOf(ents, n) ==
    [k \in {lower(ents[e[1]].aliases[e[2]]) : e \in AliasEntries(ents, n)} |->
       LET hits == {e \in AliasEntries(ents, n) :
                      lower(ents[e[1]].aliases[e[2]]) = k}
           last == CHOOSE e \in hits :
                     \A f \in hits :
                       f[1] < e[1] \/ (f[1] = e[1] /\ f[2] <= e[2])
       IN ents[last[1]].name]

\* vector_backend.encode(texts): a matrix with one row per text.
encode(texts) == [matrix |-> texts]

\* int(np.argmax(scores)): the first index of the greatest score.
argmax(scores) ==
    CHOOSE i \in DOMAIN scores :
      /\ \A j \in DOMAIN scores : scores[j] <= scores[i]
      /\ \A j \in DOMAIN scores : scores[j] = scores[i] => i <= j

Raised == [raised |-> TRUE]

\* resolve(query) on the attributes as given; scores is what
\* vector_backend.similarity returns, one score per row of the matrix.
\* A None or empty matrix makes similarity / argmax raise.
resolve(known, emap, amap, vectors, query, scores) ==
    IF query_norm(query) \in DOMAIN amap
    THEN [ticker |-> emap[amap[query_norm(query)]],
          canonical_name |-> amap[query_norm(query)],
          confidence |-> 100, method |-> "alias_lookup"]
    ELSE IF vectors = Null \/ Len(scores) = 0
    THEN Raised
    ELSE IF AboveThreshold(scores[argmax(scores)])
    THEN [ticker |-> emap[known[argmax(scores)]],
          canonical_name |-> known[argmax(scores)],
          confidence |-> scores[argmax(scores)],
          method |-> "pure_vector"]
    ELSE Null

\* The score vectors similarity can return for a matrix.
ScoresFor(vectors) ==
    IF vectors = Null THEN {<<>>}
    ELSE [1..Len(vectors.matrix) -> ScoreValues]

NoResolve == [called |-> FALSE]

ResolverInit ==
    /\ known_entities = <<>>
    /\ entity_vectors = Null
    /\ entity_map = <<>>
    /\ alias_map = <<>>
    /\ res_last = NoResolve
    /\ loadPc = [pc |-> "idle"]
    /\ resPc = [pc |-> "idle"]

\* load_entities(entities), run with no resolve in progress.
load_entities ==
    /\ loadPc.pc = "idle" /\ resPc.pc = "idle"
    /\ \E ents \in Corpora :
         /\ known_entities' = KnownOf(ents, Len(ents))
         /\ entity_map' = EntityMapOf(ents, Len(ents))
         /\ alias_map' = AliasMapOf(ents, Len(ents))
         /\ entity_vectors' = encode(KnownOf(ents, Len(ents)))
    /\ res_last' = NoResolve
    /\ UNCHANGED <<loadPc, resPc>>
    /\ UNCHANGED nonResolverVars

\* resolve(query), run with no load_entities in progress.
Resolve ==
    /\ loadPc.pc = "idle" /\ resPc.pc = "idle"
    /\ \E query \in Queries, scores \in ScoresFor(entity_vectors) :
         res_last' = [called |-> TRUE, query |-> query, scores |-> scores,
                      ret |-> resolve(known_entities, entity_map, alias_map,
                                      entity_vectors, query, scores)]
    /\ UNCHANGED <<known_entities, entity_vectors, entity_map, alias_map,
                   loadPc, resPc>>
    /\ UNCHANGED nonResolverVars

ResolverStep ==
    \/ load_entities
    \/ Resolve

\* ---------------------------------------------------------------------
\* load_entities and resolve run by two threads on one resolver: each
\* attribute read and each attribute write is a step of its own.
\* ---------------------------------------------------------------------
\* load_entities, line 99
LoadStart ==
    /\ loadPc.pc = "idle"
    /\ \E ents \in Corpora \ {<<>>} :
         loadPc' = [pc |-> "reset_entity_map", ents |-> ents, i |-> 0]
    /\ known_entities' = <<>>
    /\ UNCHANGED <<entity_vectors, entity_map, alias_map, res_last, resPc>>
    /\ UNCHANGED nonResolverVars

\* load_entities, line 100
LoadResetEntityMap ==
    /\ loadPc.pc = "reset_entity_map"
    /\ entity_map' = <<>>
    /\ loadPc' = [loadPc EXCEPT !.pc = "reset_alias_map"]
    /\ UNCHANGED <<known_entities, entity_vectors, alias_map, res_last, resPc>>
    /\ UNCHANGED nonResolverVars

\* load_entities, line 101
LoadResetAliasMap ==
    /\ loadPc.pc = "reset_alias_map"
    /\ alias_map' = <<>>
    /\ loadPc' = [loadPc EXCEPT !.pc = "append"]
    /\ UNCHANGED <<known_entities, entity_vectors, entity_map, res_last, resPc>>
    /\ UNCHANGED nonResolverVars

\* load_entities, lines 103-105: the next entity's name is appended; after
\* the last one, lines 117-118 follow.
LoadAppend ==
    /\ loadPc.pc = "append"
    /\ IF loadPc.i < Len(loadPc.ents)
       THEN /\ known_entities' = KnownOf(loadPc.ents, loadPc.i + 1)
            /\ loadPc' = [loadPc EXCEPT !.pc = "maps", !.i = @ + 1]
       ELSE /\ loadPc' = [loadPc EXCEPT !.pc = "encode"]
            /\ UNCHANGED known_entities
    /\ UNCHANGED <<entity_vectors, entity_map, alias_map, res_last, resPc>>
    /\ UNCHANGED nonResolverVars

\* load_entities, lines 106-111: the entity's ticker and aliases
LoadMaps ==
    /\ loadPc.pc = "maps"
    /\ entity_map' = EntityMapOf(loadPc.ents, loadPc.i)
    /\ alias_map' = AliasMapOf(loadPc.ents, loadPc.i)
    /\ loadPc' = [loadPc EXCEPT !.pc = "append"]
    /\ UNCHANGED <<known_entities, entity_vectors, res_last, resPc>>
    /\ UNCHANGED nonResolverVars

\* load_entities, lines 117-118
LoadEncode ==
    /\ loadPc.pc = "encode"
    /\ entity_vectors' = encode(known_entities)
    /\ loadPc' = [pc |-> "idle"]
    /\ UNCHANGED <<known_entities, entity_map, alias_map, res_last, resPc>>
    /\ UNCHANGED nonResolverVars

\* resolve, lines 125-129: `query_norm in self.alias_map`.  usable tells
\* whether the vector matrix the call starts on has rows.
ResStart ==
    /\ resPc.pc = "idle"
    /\ \E query \in Queries :
         resPc' = [pc |-> IF query_norm(query) \in DOMAIN alias_map
                          THEN "alias_get" ELSE "similarity",
                   query |-> query,
                   usable |-> (/\ entity_vectors # Null
                               /\ Len(entity_vectors.matrix) > 0)]
    /\ res_last' = NoResolve
    /\ UNCHANGED <<known_entities, entity_vectors, entity_map, alias_map,
                   loadPc>>
    /\ UNCHANGED nonResolverVars

ResFail == [resPc EXCEPT !.pc = "failed"]

\* resolve, line 130: self.alias_map[query_norm], KeyError if absent
ResAliasGet ==
    /\ resPc.pc = "alias_get"
    /\ resPc' = IF query_norm(resPc.query) \in DOMAIN alias_map
                THEN [pc |-> "alias_ticker", query |-> resPc.query,
                      usable |-> resPc.usable,
                      canonical |-> alias_map[query_norm(resPc.query)]]
                ELSE ResFail
    /\ UNCHANGED <<known_entities, entity_vectors, entity_map, alias_map,
                   res_last, loadPc>>
    /\ UNCHANGED nonResolverVars

\* resolve, lines 132-137: self.entity_map[canonical], KeyError if absent
ResAliasTicker ==
    /\ resPc.pc = "alias_ticker"
    /\ resPc' = IF resPc.canonical \in DOMAIN entity_map
                THEN [pc |-> "done", query |-> resPc.query,
                      usable |-> resPc.usable, scored |-> resPc.canonical,
                      ret |-> [ticker |-> entity_map[resPc.canonical],
                               canonical_name |-> resPc.canonical,
                               confidence |-> 100,
                               method |-> "alias_lookup"]]
                ELSE ResFail
    /\ UNCHANGED <<known_entities, entity_vectors, entity_map, alias_map,
                   res_last, loadPc>>
    /\ UNCHANGED nonResolverVars

\* resolve, lines 161-170: the scores against self.entity_vectors and the
\* best index; scored is the name whose row scored best.
ResSimilarity ==
    /\ resPc.pc = "similarity"
    /\ \E scores \in ScoresFor(entity_vectors) :
         resPc' = IF Len(scores) = 0
                  THEN ResFail
                  ELSE [pc |-> "best_name", query |-> resPc.query,
                        usable |-> resPc.usable,
                        best_idx |-> argmax(scores),
                        best_score |-> scores[argmax(scores)],
                        scored |-> entity_vectors.matrix[argmax(scores)]]
    /\ UNCHANGED <<known_entities, entity_vectors, entity_map, alias_map,
                   res_last, loadPc>>
    /\ UNCHANGED nonResolverVars

\* resolve, line 171: self.known_entities[best_idx_vec], IndexError if
\* the list is shorter
ResBestName ==
    /\ resPc.pc = "best_name"
    /\ resPc' = IF resPc.best_idx \in DOMAIN known_entities
                THEN [pc |-> "ticker", query |-> resPc.query,
                      usable |-> resPc.usable,
                      best_score |-> resPc.best_score,
                      scored |-> resPc.scored,
                      best_name |-> known_entities[resPc.best_idx]]
                ELSE ResFail
    /\ UNCHANGED <<known_entities, entity_vectors, entity_map, alias_map,
                   res_last, loadPc>>
    /\ UNCHANGED nonResolverVars

\* resolve, lines 176-184: self.entity_map[best_name_vec], KeyError if
\* absent, or None
ResTicker ==
    /\ resPc.pc = "ticker"
    /\ resPc' = IF ~AboveThreshold(resPc.best_score)
                THEN [pc |-> "done", query |-> resPc.query,
                      usable |-> resPc.usable, scored |-> resPc.scored,
                      ret |-> Null]
                ELSE IF resPc.best_name \in DOMAIN entity_map
                THEN [pc |-> "done", query |-> resPc.query,
                      usable |-> resPc.usable, scored |-> resPc.scored,
                      ret |-> [ticker |-> entity_map[resPc.best_name],
                               canonical_name |-> resPc.best_name,
                               confidence |-> resPc.best_score,
                               method |-> "pure_vector"]]
                ELSE ResFail
    /\ UNCHANGED <<known_entities, entity_vectors, entity_map, alias_map,
                   res_last, loadPc>>
    /\ UNCHANGED nonResolverVars

\* The caller has the result or the exception.
ResReturn ==
    /\ resPc.pc \in {"done", "failed"}
    /\ resPc' = [pc |-> "idle"]
    /\ UNCHANGED <<known_entities, entity_vectors, entity_map, alias_map,
                   res_last, loadPc>>
    /\ UNCHANGED nonResolverVars

ReloadStep ==
    \/ load_entities
    \/ LoadStart
    \/ LoadResetEntityMap
    \/ LoadResetAliasMap
    \/ LoadAppend
    \/ LoadMaps
    \/ LoadEncode
    \/ ResStart
    \/ ResAliasGet
    \/ ResAliasTicker
    \/ ResSimilarity
    \/ ResBestName
    \/ ResTicker
    \/ ResReturn

\* =====================================================================
\* PollingEngine.run_once over MarketRegistry: which adapter is asked
\* for which tickers
\* =====================================================================
\* The ticker lists a PollingEngine can be built with: any order, with
\* repeats, only one market, or none at all.
GroupTickers == {"NVDA", "RELIANCE.NS", "reliance.ns"}
TickerLists == UNION {[1..n -> GroupTickers] : n \in 0..MaxTickers}

\* Variant of get_client that ignores the suffix.
get_client_default(ticker) == "edgar_client"

\* MarketRegistry.get_client(ticker)
get_client(ticker) ==
    IF EndsWithNS(ticker) THEN "nse_client" ELSE "edgar_client"

GroupInit ==
    /\ g_tickers = Null
    /\ g_pc = "none"
    /\ g_groups = Null
    /\ g_group = 0
    /\ g_calls = <<>>

\* PollingEngine(tickers=...)
GroupConstruct ==
    /\ g_pc = "none"
    /\ \E tickers \in TickerLists : g_tickers' = [list |-> tickers]
    /\ g_pc' = "idle"
    /\ UNCHANGED <<g_groups, g_group, g_calls>>
    /\ UNCHANGED nonGroupVars

\* run_once, lines 91-103: return at once without tickers, else group
\* them.
GroupRunOnce ==
    /\ g_pc = "idle"
    /\ g_calls' = <<>>
    /\ IF Len(g_tickers.list) = 0
       THEN /\ g_pc' = "done"
            /\ g_groups' = Null
            /\ g_group' = 0
       ELSE /\ g_pc' = "loop"
            /\ g_groups' = group_tickers_by_market(g_tickers.list)
            /\ g_group' = 1
    /\ UNCHANGED g_tickers
    /\ UNCHANGED nonGroupVars

\* run_once, lines 105-119: one iteration of the loop over
\* groups.items(): an empty group is skipped, otherwise the client of
\* the group's first ticker is asked for the group's tickers (whether it
\* then raises or returns does not change who was asked).
GroupIterate ==
    /\ g_pc = "loop"
    /\ LET market_tickers == g_groups[Markets[g_group]]
       IN g_calls' =
            IF Len(market_tickers) = 0
            THEN g_calls
            ELSE Append(g_calls, [client |-> get_client(market_tickers[1]),
                                  tickers |-> market_tickers])
    /\ IF g_group < Len(Markets)
       THEN g_group' = g_group + 1 /\ g_pc' = "loop"
       ELSE g_group' = 0 /\ g_pc' = "done"
    /\ UNCHANGED <<g_tickers, g_groups>>
    /\ UNCHANGED nonGroupVars

\* run_once has returned; the engine waits for the next cycle.
GroupReturn ==
    /\ g_pc = "done"
    /\ g_pc' = "idle"
    /\ UNCHANGED <<g_tickers, g_groups, g_group, g_calls>>
    /\ UNCHANGED nonGroupVars

GroupStep ==
    \/ GroupConstruct
    \/ GroupRunOnce
    \/ GroupIterate
    \/ GroupReturn

\* =====================================================================
\* DiscoveryEngine.__init__: auto-ingest of an empty or stale index
\* =====================================================================
\* DiscoveryEngine(max_stale_hours=...), in clock units of the model.
StaleHours == {1, 2}

\* The MarketMetadata values _trigger_ingestion builds from catalog
\* items: end_date is always None.
IngestInputs == {m \in MarketInputs : m.end_date = None}

\* MarketIndex.get_count()
get_count(meta) == Cardinality({e \in EventIds : meta[e] # NoRow})

\* MarketIndex.is_empty()
is_empty(meta) == get_count(meta) = 0

\* MarketIndex.is_stale(max_age_hours): no modification time, or an age
\* above the limit.
is_stale(mtime, at, max_age_hours) ==
    IF mtime = Null THEN TRUE ELSE at - mtime.at > max_age_hours

\* What the catalog requests of _trigger_ingestion can end in: the
\* events collected before an empty page or a RequestException (possibly
\* none), or an item that cannot be turned into MarketMetadata (the
\* exception leaves the constructor).
CatalogOutcomes ==
    {[raised |-> FALSE, markets |-> ms] :
       ms \in UNION {[1..n -> IngestInputs] : n \in 0..MaxCatalog}}
    \cup {[raised |-> TRUE, markets |-> <<>>]}

NoEngine == [called |-> FALSE]

DiscoveryInit ==
    /\ d_meta = [e \in EventIds |-> NoRow]
    /\ d_fts = EmptyBag
    /\ d_mtime = Null
    /\ d_now = 0
    /\ d_last = NoEngine

\* Time passes.
DiscoveryClock ==
    /\ d_now < MaxDiscTime
    /\ d_now' = d_now + 1
    /\ d_last' = NoEngine
    /\ UNCHANGED <<d_meta, d_fts, d_mtime>>
    /\ UNCHANGED nonDiscoveryVars

\* DiscoveryEngine(auto_ingest, max_stale_hours): MarketIndex() creates
\* the database file if there is none; then the test of line 58 and,
\* when it holds, _trigger_ingestion with its upsert_markets call.  A
\* committed write stamps the file's modification time.
DiscoveryEngineNew ==
    /\ \E auto_ingest \in BOOLEAN, max_stale_hours \in StaleHours :
         LET mtime0 == IF d_mtime = Null THEN [at |-> d_now] ELSE d_mtime
             was_empty == is_empty(d_meta)
             was_stale == is_stale(mtime0, d_now, max_stale_hours)
             before == [meta |-> d_meta, fts |-> d_fts]
         IN IF auto_ingest /\ (was_empty \/ was_stale)
            THEN \E c \in CatalogOutcomes :
                 \E failAt \in 0..(3 * Len(c.markets) + 1) :
                   LET r == RunStatements(before, c.markets, 1, failAt)
                       after == IF c.raised THEN before
                                ELSE TransactionEnd(before, r)
                       written == ~c.raised /\ ~r.raised /\ Len(c.markets) > 0
                       mtime1 == IF written THEN [at |-> d_now] ELSE mtime0
                   IN /\ (c.raised => failAt = 0)
                      /\ d_meta' = after.meta
                      /\ d_fts' = after.fts
                      /\ d_mtime' = mtime1
                      /\ d_last' =
                           [called |-> TRUE, auto_ingest |-> auto_ingest,
                            max_stale_hours |-> max_stale_hours,
                            was_empty |-> was_empty, was_stale |-> was_stale,
                            ingests |-> 1, raised |-> c.raised,
                            upstream |-> Len(c.markets),
                            count_after |-> get_count(after.meta),
                            stale_after |-> is_stale(mtime1, d_now,
                                                     max_stale_hours)]
            ELSE /\ d_mtime' = mtime0
                 /\ d_last' =
                      [called |-> TRUE, auto_ingest |-> auto_ingest,
                       max_stale_hours |-> max_stale_hours,
                       was_empty |-> was_empty, was_stale |-> was_stale,
                       ingests |-> 0, raised |-> FALSE, upstream |-> 0,
                       count_after |-> get_count(d_meta),
                       stale_after |-> is_stale(mtime0, d_now,
                                                max_stale_hours)]
                 /\ UNCHANGED <<d_meta, d_fts>>
    /\ UNCHANGED d_now
    /\ UNCHANGED nonDiscoveryVars

DiscoveryStep ==
    \/ DiscoveryClock
    \/ DiscoveryEngineNew

\* =====================================================================
\* PolymarketScraper: hydration of index metadata into MacroEvents
\* =====================================================================
OutcomeLabels == {"Yes", "No"}

\* The price strings of outcomePrices: two probabilities, a number
\* outside [0, 1] and a text float() rejects.
PriceTexts == {"0.7", "0.3", "1.5", "n/a"}

\* float(price) succeeds
float_ok(p) == p # "n/a"

\* float(price), in hundredths
float_of(p) ==
    CASE p = "0.7" -> 70
      [] p = "0.3" -> 30
      [] p = "1.5" -> 150

\* ast.literal_eval of a market field: the list it denotes, or a value
\* literal_eval raises on.
Unparsable == [ok |-> FALSE]
ListValues(S) ==
    {[ok |-> TRUE, list |-> l] :
       l \in UNION {[1..n -> S] : n \in 0..MaxOutcomes}}
    \cup {Unparsable}

\* The market dicts the markets endpoint can return.
MarketDicts ==
    [id : {"m1"}, outcomes : ListValues(OutcomeLabels),
     outcomePrices : ListValues(PriceTexts), volume_ok : BOOLEAN]

Min(a, b) == IF a <= b THEN a ELSE b

\* _parse_single_market, lines 171-180: outcomes_data and prob_yes.  The
\* bare except keeps whatever the loop had appended before the failure.
ParseOutcomes(market) ==
    IF ~market.outcomes.ok \/ ~market.outcomePrices.ok
    THEN [outcomes_data |-> <<>>, prob_yes |-> 50]
    ELSE LET labels == market.outcomes.list
             prices == market.outcomePrices.list
             n == IF Len(labels) > 0 /\ Len(prices) > 0
                  THEN Min(Len(labels), Len(prices)) ELSE 0
             pair(i) == [label |-> labels[i],
                         probability |-> float_of(prices[i])]
             bad == {i \in 1..n : ~float_ok(prices[i])}
         IN IF bad # {}
            THEN LET k == CHOOSE i \in bad : \A j \in bad : i <= j
                 IN [outcomes_data |-> [i \in 1..(k - 1) |-> pair(i)],
                     prob_yes |-> 50]
            ELSE [outcomes_data |-> [i \in 1..n |-> pair(i)],
                  prob_yes |-> IF Len(prices) = 0 THEN 50
                               ELSE IF float_ok(prices[1])
                               THEN float_of(prices[1])
                               ELSE 50]

\* The shell event of the outer except.
ErrorEvent ==
    [event_id |-> "", title |-> "Error Parsing", probability_yes |-> 0,
     outcomes |-> Null, source |-> "error"]

\* MacroEvent.probability_yes: Field(..., ge=0.0, le=1.0), in hundredths
FieldValid(prob) == prob >= 0 /\ prob <= 100

\* _parse_single_market(market): the MacroEvent, or the shell event when
\* float(volume) or the model's validation raises.
parse_single_market(market) ==
    LET p == ParseOutcomes(market)
    IN IF market.volume_ok /\ FieldValid(p.prob_yes)
       THEN [event_id |-> market.id, title |-> "Unknown",
             probability_yes |-> p.prob_yes,
             outcomes |-> [list |-> p.outcomes_data],
             source |-> "polymarket"]
       ELSE ErrorEvent

NoParse == [called |-> FALSE]

HydrateInit == h_last = NoParse

\* hydrate_metadata, one metadata entry: get_event_by_id fetches the
\* market and parses it, or the request fails and nothing is produced.
Hydrate ==
    /\ \E market \in MarketDicts :
         h_last' = [called |-> TRUE, market |-> market,
                    event |-> parse_single_market(market)]
    /\ UNCHANGED nonHydrateVars

\* get_event_by_id, lines 132-134: RequestException, no event.
HydrateRequestFailed ==
    /\ h_last' = [called |-> TRUE, market |-> Unparsable, event |-> Null]
    /\ UNCHANGED nonHydrateVars

HydrateStep ==
    \/ Hydrate
    \/ HydrateRequestFailed

\* =====================================================================
\* run_poller.py: the polling command line
\* =====================================================================
\* The attributes parse_args() sets: one per add_argument call.
ParserDests ==
    {"tickers", "interval", "cron", "simple", "log_level", "max_workers"}

\* The attributes of args that main reads before the engine is built,
\* in order.
ReadBeforeEngine == <<"log_level", "log_format", "log_file", "console">>

\* The command lines of the model.  misfire tells whether
\* --misfire-grace-seconds was passed, and with what value.
IntervalValues == {-5, 0, 1, 5, 10}
MisfireValues == {-1, 0, 30}
CronValues == {"None", "*/15 * * * *", "not a cron"}
CommandLines ==
    [interval : IntervalValues, cron : CronValues, simple : BOOLEAN,
     misfire : [given : {FALSE}, value : {0}]
               \cup [given : {TRUE}, value : MisfireValues]]

\* Exit status of the interpreter: argparse errors end with 2, an
\* uncaught exception with 1.
ExitArgparse == 2
ExitTraceback == 1

\* Option names a command line uses that the parser does not know.
UnknownOptions(argv) ==
    IF argv.misfire.given /\ "misfire_grace_seconds" \notin ParserDests
    THEN {"--misfire-grace-seconds"} ELSE {}

\* start_loop / start_scheduled up to the first polling cycle: the
\* ValueError checks, else the engine runs.
EngineStart(argv) ==
    IF argv.simple
    THEN IF argv.interval * 60 <= 0
         THEN [exited |-> TRUE, code |-> ExitTraceback, started |-> "none"]
         ELSE [exited |-> FALSE, code |-> 0, started |-> "start_loop"]
    ELSE IF argv.cron = "None" /\ argv.interval <= 0
    THEN [exited |-> TRUE, code |-> ExitTraceback, started |-> "none"]
    ELSE IF argv.misfire.given /\ argv.misfire.value <= 0
    THEN [exited |-> TRUE, code |-> ExitTraceback, started |-> "none"]
    ELSE [exited |-> FALSE, code |-> 0, started |-> "start_scheduled"]

\* main(): parse_args, configure_logging with attributes of args, then
\* the engine.
main(argv) ==
    IF UnknownOptions(argv) # {}
    THEN [exited |-> TRUE, code |-> ExitArgparse, started |-> "none"]
    ELSE IF \E i \in DOMAIN ReadBeforeEngine :
              ReadBeforeEngine[i] \notin ParserDests
    THEN \* AttributeError: 'Namespace' object has no attribute ...
         [exited |-> TRUE, code |-> ExitTraceback, started |-> "none"]
    ELSE IF ~argv.simple /\ "misfire_grace_seconds" \notin ParserDests
    THEN [exited |-> TRUE, code |-> ExitTraceback, started |-> "none"]
    ELSE EngineStart(argv)

NoRun == [called |-> FALSE]

CliInit == cli_last = NoRun

\* python run_poller.py ...
RunPoller ==
    /\ \E argv \in CommandLines :
         cli_last' = [called |-> TRUE, argv |-> argv, out |-> main(argv)]
    /\ UNCHANGED nonCliVars

CliStep == RunPoller

\* =====================================================================
\* PollingEngine.start_loop / start_scheduled: the life of the engine,
\* its cycles, exceptions that leave a cycle, and KeyboardInterrupt
\* =====================================================================
\* Arguments of the model.
LoopIntervals == {0, 60}
SchedIntervals == {-5, 0, 5}
SchedMisfires == {[given |-> FALSE, value |-> 0],
                  [given |-> TRUE, value |-> 0],
                  [given |-> TRUE, value |-> 30]}

\* CronTrigger.from_crontab accepts five fields; anything else is a
\* ValueError.
CronValid(cron_expression) == cron_expression = "*/15 * * * *"

\* IntervalTrigger(minutes=m): a zero interval is replaced by one second,
\* any other value is taken as it is.
IntervalTrigger(minutes) ==
    [kind |-> "interval",
     seconds |-> IF minutes * 60 = 0 THEN 1 ELSE minutes * 60]

CronTrigger(cron_expression) == [kind |-> "cron", seconds |-> 0]

\* start_scheduled, lines 209-222: the trigger of polling_job, or the
\* ValueError for a non-positive interval, which is tested only when no
\* cron expression is given.
ChooseTrigger(cron_expression, interval_minutes) ==
    IF cron_expression # "None"
    THEN IF CronValid(cron_expression)
         THEN [raised |-> FALSE, trigger |-> CronTrigger(cron_expression)]
         ELSE [raised |-> FALSE,
               trigger |-> IntervalTrigger(interval_minutes)]
    ELSE IF interval_minutes <= 0
    THEN [raised |-> TRUE, trigger |-> Null]
    ELSE [raised |-> FALSE, trigger |-> IntervalTrigger(interval_minutes)]

\* What run_once has done about a group: nothing yet ("none"),
\* get_latest_filings raised ("raised"), it returned no filing ("empty"),
\* it returned filings of which some were submitted ("filings"), or an
\* exception was raised outside the try blocks ("fatal").
NotQueried == [kind |-> "none", returned |-> 0, submitted |-> 0]

\* run_once begins on a thread: nothing queried, nothing submitted.
NewCycle(thread) ==
    [thread |-> thread, stage |-> "query", group |-> 1,
     outcome |-> [m \in {"edgar", "nse"} |-> NotQueried],
     pending |-> 0, exc |-> "none"]

Polling == {"cycle", "startup", "sleep", "wait"}

EngineInit ==
    /\ e_pc = "init"
    /\ e_entry = "none"
    /\ e_args = Null
    /\ e_job = Null
    /\ e_run = Null
    /\ e_ended = <<>>
    /\ e_last = Null
    /\ e_interrupted = FALSE
    /\ e_error = "none"

\* start_loop(interval_seconds): ValueError for a non-positive interval,
\* else the first run_once begins on the calling thread.
StartLoop ==
    /\ e_pc = "init"
    /\ \E interval_seconds \in LoopIntervals :
         /\ e_args' = [interval_seconds |-> interval_seconds]
         /\ IF interval_seconds <= 0
            THEN /\ e_pc' = "raised"
                 /\ e_error' = "ValueError"
                 /\ UNCHANGED e_run
            ELSE /\ e_pc' = "cycle"
                 /\ e_run' = NewCycle("main")
                 /\ UNCHANGED e_error
    /\ e_entry' = "start_loop"
    /\ UNCHANGED <<e_job, e_ended, e_last, e_interrupted>>
    /\ UNCHANGED nonEngineVars

\* start_scheduled(cron_expression, interval_minutes,
\* misfire_grace_seconds) up to the immediate self.run_once(): without
\* APScheduler it is start_loop(interval_minutes * 60); else the trigger
\* is chosen, misfire_grace_seconds is validated, the job is registered
\* and the startup cycle begins on the calling thread.
StartScheduledCall ==
    /\ e_pc = "init"
    /\ \E cron_expression \in CronValues,
          interval_minutes \in SchedIntervals,
          misfire \in SchedMisfires,
          apscheduler \in BOOLEAN :
         LET t == ChooseTrigger(cron_expression, interval_minutes)
         IN /\ e_args' = [cron_expression |-> cron_expression,
                          interval_minutes |-> interval_minutes,
                          misfire |-> misfire,
                          apscheduler |-> apscheduler]
            /\ IF ~apscheduler
               THEN IF interval_minutes * 60 <= 0
                    THEN /\ e_pc' = "raised"
                         /\ e_error' = "ValueError"
                         /\ UNCHANGED <<e_run, e_job>>
                    ELSE /\ e_pc' = "cycle"
                         /\ e_run' = NewCycle("main")
                         /\ UNCHANGED <<e_error, e_job>>
               ELSE IF t.raised \/ (misfire.given /\ misfire.value <= 0)
               THEN /\ e_pc' = "raised"
                    /\ e_error' = "ValueError"
                    /\ UNCHANGED <<e_run, e_job>>
               ELSE /\ e_job' = [id |-> "polling_job", trigger |-> t.trigger]
                    /\ e_pc' = "startup"
                    /\ e_run' = NewCycle("main")
                    /\ UNCHANGED e_error
    /\ e_entry' = "start_scheduled"
    /\ UNCHANGED <<e_ended, e_last, e_interrupted>>
    /\ UNCHANGED nonEngineVars

\* Variant of AfterGroup that ends the loop over the groups (a break or
\* a return where the code has continue).
AfterGroup_break(run) == [run EXCEPT !.stage = "return"]

\* run_once, the step after a group: the next group, or the end of the
\* loop over the groups.
AfterGroup(run) ==
    IF run.group < Len(Markets)
    THEN [run EXCEPT !.group = @ + 1, !.stage = "query"]
    ELSE [run EXCEPT !.stage = "return"]

\* run_once, one iteration of the loop over the groups: get_latest_filings
\* raises (logged, continue), returns nothing (continue), or returns
\* filings that are submitted to a pool; or an exception is raised outside
\* the try blocks (executor.submit cannot start a thread, lines 124-128).
CycleQuery ==
    /\ e_run # Null
    /\ e_run.stage = "query"
    /\ LET m == Markets[e_run.group]
           Got(kind, n) ==
               [e_run EXCEPT !.outcome[m] =
                   [kind |-> kind, returned |-> n, submitted |-> n]]
       IN \/ \E kind \in {"raised", "empty"} :
               e_run' = AfterGroup(Got(kind, 0))
          \/ \E n \in 1..MaxTasks :
               e_run' = [Got("filings", n) EXCEPT !.stage = "pool",
                                                  !.pending = n]
          \/ \E n \in 1..MaxTasks :
               e_run' = [e_run EXCEPT
                           !.outcome[m] = [kind |-> "fatal", returned |-> n,
                                           submitted |-> 0],
                           !.stage = "unwind", !.exc = "Exception"]
    /\ UNCHANGED <<e_pc, e_entry, e_args, e_job, e_ended, e_last,
                   e_interrupted,
                   e_error>>
    /\ UNCHANGED nonEngineVars

\* A pool thread finishes one _process_filing call.  The pool runs what
\* was submitted also while an exception unwinds the with block
\* (shutdown(wait=True)).
CycleTask ==
    /\ e_run # Null
    /\ e_run.pending > 0
    /\ e_run' = [e_run EXCEPT !.pending = @ - 1]
    /\ UNCHANGED <<e_pc, e_entry, e_args, e_job, e_ended, e_last,
                   e_interrupted,
                   e_error>>
    /\ UNCHANGED nonEngineVars

\* run_once, end of the with block.
CyclePoolDone ==
    /\ e_run # Null
    /\ e_run.stage = "pool"
    /\ e_run.pending = 0
    /\ e_run' = AfterGroup(e_run)
    /\ UNCHANGED <<e_pc, e_entry, e_args, e_job, e_ended, e_last,
                   e_interrupted,
                   e_error>>
    /\ UNCHANGED nonEngineVars

\* How a cycle that is over ended.
EndOf(run) ==
    [thread |-> run.thread,
     end |-> CASE run.exc = "none" -> "returned"
               [] run.exc = "KeyboardInterrupt" -> "interrupted"
               [] OTHER -> "raised",
     outcome |-> run.outcome, pending |-> run.pending]

CycleOver(run) ==
    \/ run.stage = "return"
    \/ run.stage = "unwind" /\ run.pending = 0

\* What the caller of a run_once on the main thread does when it ends.
\* start_loop, lines 143-150: sleep after a return, break on
\* KeyboardInterrupt; no other exception is caught.  start_scheduled,
\* lines 237-244: scheduler.start() after a return; on KeyboardInterrupt
\* scheduler.shutdown(), which raises SchedulerNotRunningError for a
\* scheduler that was never started; no other exception is caught.
AfterMainCycle(pc, end) ==
    CASE end = "returned" /\ pc = "cycle" ->
            [pc |-> "sleep", error |-> "none"]
      [] end = "returned" -> [pc |-> "wait", error |-> "none"]
      [] end = "interrupted" /\ pc = "cycle" ->
            [pc |-> "returned", error |-> "none"]
      [] end = "interrupted" ->
            [pc |-> "raised", error |-> "SchedulerNotRunningError"]
      [] OTHER -> [pc |-> "raised", error |-> "Exception"]

\* The run_once on the calling thread ends.
MainCycleEnd ==
    /\ e_run # Null
    /\ e_run.thread = "main"
    /\ CycleOver(e_run)
    /\ LET a == AfterMainCycle(e_pc, EndOf(e_run).end)
       IN e_pc' = a.pc /\ e_error' = a.error
    /\ e_ended' = Append(e_ended, [thread |-> e_run.thread,
                                   end |-> EndOf(e_run).end])
    /\ e_last' = EndOf(e_run)
    /\ e_run' = Null
    /\ UNCHANGED <<e_entry, e_args, e_job, e_interrupted>>
    /\ UNCHANGED nonEngineVars

\* time.sleep(interval_seconds) ends: the next run_once begins.
SleepEnd ==
    /\ e_pc = "sleep"
    /\ Len(e_ended) < MaxEngineCycles
    /\ e_pc' = "cycle"
    /\ e_run' = NewCycle("main")
    /\ UNCHANGED <<e_entry, e_args, e_job, e_ended, e_last, e_interrupted,
                   e_error>>
    /\ UNCHANGED nonEngineVars

\* A run time of polling_job comes due while the scheduler runs and no
\* instance is in flight: run_once begins on an executor thread.
JobCycleStart ==
    /\ e_pc = "wait"
    /\ e_run = Null
    /\ Len(e_ended) < MaxEngineCycles
    /\ e_run' = NewCycle("job")
    /\ UNCHANGED <<e_pc, e_entry, e_args, e_job, e_ended, e_last,
                   e_interrupted,
                   e_error>>
    /\ UNCHANGED nonEngineVars

\* The job's run_once ends on the executor thread: the executor catches
\* what it raises (EVENT_JOB_ERROR) and the scheduler goes on.
JobCycleEnd ==
    /\ e_run # Null
    /\ e_run.thread = "job"
    /\ CycleOver(e_run)
    /\ e_ended' = Append(e_ended, [thread |-> e_run.thread,
                                   end |-> EndOf(e_run).end])
    /\ e_last' = EndOf(e_run)
    /\ e_run' = Null
    /\ UNCHANGED <<e_pc, e_entry, e_args, e_job, e_interrupted, e_error>>
    /\ UNCHANGED nonEngineVars

\* KeyboardInterrupt is raised on the main thread.  Inside a run_once of
\* the main thread it unwinds run_once from where it is; in time.sleep
\* it ends start_loop; in scheduler.start() it leads to
\* scheduler.shutdown(), which waits for the job in flight.
KeyboardInterrupt ==
    /\ ~e_interrupted
    /\ e_pc \in Polling
    /\ e_interrupted' = TRUE
    /\ CASE e_pc \in {"cycle", "startup"} ->
              /\ e_run.stage \in {"query", "pool"}
              /\ e_run' = [e_run EXCEPT !.stage = "unwind",
                                        !.exc = "KeyboardInterrupt"]
              /\ UNCHANGED e_pc
         [] e_pc = "sleep" -> e_pc' = "returned" /\ UNCHANGED e_run
         [] OTHER -> e_pc' = "shutdown" /\ UNCHANGED e_run
    /\ UNCHANGED <<e_entry, e_args, e_job, e_ended, e_last, e_error>>
    /\ UNCHANGED nonEngineVars

\* scheduler.shutdown() returns once no job instance is running.
ShutdownEnd ==
    /\ e_pc = "shutdown"
    /\ e_run = Null
    /\ e_pc' = "returned"
    /\ UNCHANGED <<e_entry, e_args, e_job, e_run, e_ended, e_last,
                   e_interrupted,
                   e_error>>
    /\ UNCHANGED nonEngineVars

EngineStep ==
    \/ StartLoop
    \/ StartScheduledCall
    \/ CycleQuery
    \/ CycleTask
    \/ CyclePoolDone
    \/ MainCycleEnd
    \/ SleepEnd
    \/ JobCycleStart
    \/ JobCycleEnd
    \/ KeyboardInterrupt
    \/ ShutdownEnd

\* =====================================================================
\* EdgarClient.get_latest_filings and NseClient.get_latest_filings
\* =====================================================================
EdgarTickers == {"NVDA", "TSLA"}
NseTickers == {"RELIANCE.NS", "TCS.NS"}

\* The ticker lists of a call: one or two distinct tickers, any order.
TickerSeqs(S) ==
    {<<t>> : t \in S} \cup {p \in S \X S : p[1] # p[2]}

Limits == 1..MaxLimit

\* What edgartools has for a ticker: Company(ticker) or get_filings
\* raises (ok = FALSE), or there are n 8-K filings, latest first.
CompanyStates == [ok : BOOLEAN, n : 0..MaxFilings]

\* t.replace('.NS', '')
clean_ticker(t) ==
    CASE t = "RELIANCE.NS" -> "RELIANCE"
      [] t = "TCS.NS" -> "TCS"
      [] OTHER -> t

\* The RSS feed: entries, latest first.  A title is modelled by the set
\* of cleaned tickers that occur in it as substrings.
Titles == SUBSET {"RELIANCE", "TCS"}
Feeds == UNION {[1..n -> Titles] : n \in 0..MaxFeed}

\* company.get_filings(form="8-K").latest(limit) for one ticker, as the
\* result dictionaries of lines 42-49: ticker and accession number.
RECURSIVE LatestOf(_, _, _, _)
LatestOf(ticker, n, limit, j) ==
    IF j > n \/ j > limit THEN <<>>
    ELSE <<[ticker |-> ticker, accession_number |-> j]>>
         \o LatestOf(ticker, n, limit, j + 1)

\* EdgarClient.get_latest_filings: ticker by ticker; a ticker whose
\* lookup raises is reported and skipped.
RECURSIVE EdgarLatest(_, _, _, _)
EdgarLatest(tickers, company, limit, i) ==
    IF i > Len(tickers) THEN <<>>
    ELSE (IF company[tickers[i]].ok
          THEN LatestOf(tickers[i], company[tickers[i]].n, limit, 1)
          ELSE <<>>)
         \o EdgarLatest(tickers, company, limit, i + 1)

\* NseClient.get_latest_filings, lines 25-30: the first requested ticker
\* whose cleaned form occurs in the title.
RECURSIVE MatchedTicker(_, _, _)
MatchedTicker(title, tickers, k) ==
    IF k > Len(tickers) THEN Null
    ELSE IF clean_ticker(tickers[k]) \in title
    THEN [ticker |-> tickers[k]]
    ELSE MatchedTicker(title, tickers, k + 1)

\* feed.entries[:limit * 2]
Window(feed, limit) ==
    SubSeq(feed, 1, IF Len(feed) < limit * 2 THEN Len(feed) ELSE limit * 2)

\* NseClient.get_latest_filings, lines 22-49: the loop over the first
\* limit * 2 entries, left as soon as limit results are collected,
\* whichever tickers they belong to.
RECURSIVE NseScan(_, _, _, _, _)
NseScan(entries, tickers, limit, i, results) ==
    IF i > Len(entries) THEN results
    ELSE LET m == MatchedTicker(entries[i], tickers, 1)
         IN IF m = Null
            THEN NseScan(entries, tickers, limit, i + 1, results)
            ELSE LET r == Append(results, [ticker |-> m.ticker,
                                           accession_number |-> i])
                 IN IF Len(r) >= limit THEN r
                    ELSE NseScan(entries, tickers, limit, i + 1, r)

\* NseClient.get_latest_filings: a failure of feedparser.parse is
\* printed and the empty list is returned.
NseLatest(tickers, feed, feedOk, limit) ==
    IF feedOk THEN NseScan(Window(feed, limit), tickers, limit, 1, <<>>)
    ELSE <<>>

NoCall == [adapter |-> "none"]

AdapterInit == a_last = NoCall

\* EdgarClient().get_latest_filings(tickers, limit): the adapters keep no state between
\* calls, so one call per behaviour is followed.
EdgarGetLatestFilings ==
    /\ a_last = NoCall
    /\ \E tickers \in TickerSeqs(EdgarTickers), limit \in Limits,
          company \in [EdgarTickers -> CompanyStates] :
         a_last' = [adapter |-> "edgar", tickers |-> tickers,
                    limit |-> limit, company |-> company,
                    results |-> EdgarLatest(tickers, company, limit, 1)]
    /\ UNCHANGED nonAdapterVars

\* NseClient().get_latest_filings(tickers, limit): the adapters keep no state between
\* calls, so one call per behaviour is followed.
NseGetLatestFilings ==
    /\ a_last = NoCall
    /\ \E tickers \in TickerSeqs(NseTickers), limit \in Limits,
          feed \in Feeds, feedOk \in BOOLEAN :
         a_last' = [adapter |-> "nse", tickers |-> tickers,
                    limit |-> limit, feed |-> feed, feedOk |-> feedOk,
                    results |-> NseLatest(tickers, feed, feedOk, limit)]
    /\ UNCHANGED nonAdapterVars

AdapterStep ==
    \/ EdgarGetLatestFilings
    \/ NseGetLatestFilings

\* =====================================================================
\* MarketIndex.search and _search_fallback
\* =====================================================================
\* The event_ids of the index, in ascending (text) order.
SearchIds == <<"e1", "e2", "e3">>
SearchIdSet == {SearchIds[i] : i \in DOMAIN SearchIds}

\* A row of the index as a search sees it: its volume_usd, whether its
\* market_fts row matches the query (MATCH), and whether its title or
\* tags contain the query (LIKE).
SearchRows == [volume_usd : {5, 10}, fts : BOOLEAN, like : BOOLEAN]
SearchIndexes == [SearchIdSet -> SearchRows \cup {NoRow}]

\* The rows the WHERE clause selects: MATCH over the join of market_fts
\* and market_metadata (lines 103-107), or, when that statement raises,
\* LIKE over title and tags (lines 135-138).
Matching(index, ftsOk) ==
    {e \in SearchIdSet :
        index[e] # NoRow
        /\ (IF ftsOk THEN index[e].fts ELSE index[e].like)}

\* The orders in which SQLite can return the rows S under ORDER BY
\* volume_usd DESC: the statement names no second sort key, so rows of
\* equal volume_usd come in whatever order the scan produced them.
OrderByVolumeDesc(index, S) ==
    {p \in [1..Cardinality(S) -> S] :
        /\ \A i, j \in DOMAIN p : i # j => p[i] # p[j]
        /\ \A i, j \in DOMAIN p :
             i < j => index[p[i]].volume_usd >= index[p[j]].volume_usd}

\* LIMIT ?
LimitRows(p, limit) == SubSeq(p, 1, IF Len(p) < limit THEN Len(p) ELSE limit)

NoSearch == [called |-> FALSE]

SearchInit == s_last = NoSearch

\* MarketIndex.search(query, limit).  The index is not written, so one
\* call per behaviour is followed.
Search ==
    /\ s_last = NoSearch
    /\ \E index \in SearchIndexes, limit \in 0..MaxSearchLimit,
          ftsOk \in BOOLEAN :
       \E p \in OrderByVolumeDesc(index, Matching(index, ftsOk)) :
          s_last' = [called |-> TRUE, index |-> index, limit |-> limit,
                     ftsOk |-> ftsOk, results |-> LimitRows(p, limit)]
    /\ UNCHANGED nonSearchVars

SearchStep == Search

\* =====================================================================
\* DiscoveryEngine.search_ticker (macro_core/scrapers/discovery.py)
\* =====================================================================
\* TICKER_THEME_MAP[...]["keywords"] for the mapped ticker of the model;
\* the model follows the first MaxKeywords keywords of the list.
TICKER_THEME_MAP(t) ==
    IF t = "NVDA"
    THEN [keywords |-> SubSeq(<<"NVDA", "Nvidia", "AI", "Chips",
                                "Semiconductors", "TSMC", "Blackwell",
                                "Jensen Huang">>, 1, MaxKeywords)]
    ELSE Null

\* str.upper() on the tickers of the model.
upper(t) ==
    CASE t = "nvda" -> "NVDA"
      [] t = "zzz" -> "ZZZ"
      [] OTHER -> t

SearchTickers == {"nvda", "zzz"}

\* get_keywords_for_ticker: the mapped keywords, else [ticker.upper()].
get_keywords_for_ticker(ticker) ==
    IF TICKER_THEME_MAP(upper(ticker)) = Null
    THEN <<upper(ticker)>>
    ELSE TICKER_THEME_MAP(upper(ticker)).keywords

Range(s) == {s[i] : i \in DOMAIN s}

\* The queries a row of the model can be selected by: the ticker's
\* keywords and one keyword of another ticker.
KeywordUniverse(ticker) ==
    Range(get_keywords_for_ticker(ticker)) \cup {"NVDA"}

\* A row of the index as search_ticker sees it: its volume_usd and the
\* queries whose statement (MATCH, or LIKE after a failed MATCH) selects
\* it.
TickerRows(ticker) ==
    [volume_usd : {5, 10}, selected_by : SUBSET KeywordUniverse(ticker)]
TickerIndexes(ticker) == [SearchIdSet -> TickerRows(ticker) \cup {NoRow}]

\* The rows index.search(kw, ...) selects.
MatchingKeyword(index, kw) ==
    {e \in SearchIdSet : index[e] # NoRow /\ kw \in index[e].selected_by}

\* for m in matches: append m unless its event_id was seen.
RECURSIVE AppendUnseen(_, _)
AppendUnseen(results, matches) ==
    IF matches = <<>> THEN results
    ELSE AppendUnseen(
            IF Head(matches) \in Range(results) THEN results
            ELSE Append(results, Head(matches)),
            Tail(matches))

\* The row orders the queries of a call can come back in: one order of
\* the selected rows per keyword.
RECURSIVE QueryOrders(_, _)
QueryOrders(index, keywords) ==
    IF keywords = <<>> THEN {<<>>}
    ELSE {<<p>> \o rest :
            p \in OrderByVolumeDesc(index,
                      MatchingKeyword(index, Head(keywords))),
            rest \in QueryOrders(index, Tail(keywords))}

\* Variant of SearchEach that caps the union while it is built.
RECURSIVE SearchEach_capped(_, _, _)
SearchEach_capped(limit, orders, results) ==
    IF orders = <<>> THEN results
    ELSE SearchEach_capped(limit, Tail(orders),
            LimitRows(
                AppendUnseen(results, LimitRows(Head(orders), limit)),
                limit))

\* The loop over the keywords (lines 134-139): each search is capped at
\* limit; orders[k] is what the k-th query selects, in the order SQLite
\* returns it.
RECURSIVE SearchEach(_, _, _)
SearchEach(limit, orders, results) ==
    IF orders = <<>> THEN results
    ELSE SearchEach(limit, Tail(orders),
            AppendUnseen(results, LimitRows(Head(orders), limit)))

\* Variant of SortByVolume that leaves the union in keyword order.
SortByVolume_unsorted(index, results) == results

\* results.sort(key=volume_usd, reverse=True): list.sort is stable, so
\* rows of equal volume_usd keep their order.
RECURSIVE SortByVolume(_, _)
SortByVolume(index, results) ==
    IF results = <<>> THEN <<>>
    ELSE LET top == CHOOSE i \in DOMAIN results :
                       /\ \A j \in DOMAIN results :
                            index[results[j]].volume_usd
                               <= index[results[i]].volume_usd
                       /\ \A j \in 1..(i - 1) :
                            index[results[j]].volume_usd
                               < index[results[i]].volume_usd
         IN <<results[top]>>
            \o SortByVolume(index,
                   SubSeq(results, 1, top - 1)
                   \o SubSeq(results, top + 1, Len(results)))

NoTickerSearch == [called |-> FALSE]

TickerSearchInit == t_last = NoTickerSearch

\* DiscoveryEngine.search_ticker(ticker, limit).  The index is not
\* written, so one call per behaviour is followed.
search_ticker ==
    /\ t_last = NoTickerSearch
    /\ \E ticker \in SearchTickers, limit \in 0..MaxSearchLimit :
       \E index \in TickerIndexes(ticker) :
       \E orders \in QueryOrders(index, get_keywords_for_ticker(ticker)) :
          t_last' = [called |-> TRUE, index |-> index,
                     ticker |-> ticker, limit |-> limit,
                     results |->
                         LimitRows(
                             SortByVolume(index,
                                 SearchEach(limit, orders, <<>>)),
                             limit)]
    /\ UNCHANGED nonTickerSearchVars

TickerSearchStep == search_ticker

\* =====================================================================
\* DiscoveryEngine._trigger_ingestion: the paging loop
\* =====================================================================
\* max_pages (20 in the source), scaled to the model.
max_pages == MaxPages

\* What one iteration of the loop can meet: a page of events, an empty
\* page, session.get raising (connection, timeout), raise_for_status
\* raising, response.json() raising requests' JSONDecodeError, or a
\* decoded page that the item loop cannot handle (a JSON object instead
\* of a list, a non-numeric volume, a title of null): AttributeError,
\* ValueError or the model's validation error.
PageKinds ==
    {"items", "empty", "get_raised", "bad_status", "bad_json", "bad_item"}

\* except requests.RequestException (line 118).
IsRequestException(kind) == kind \in {"get_raised", "bad_status", "bad_json"}

\* Where the loop goes after a page: on to the next request, out of the
\* loop to upsert_markets (break, or range exhausted), or out of
\* _trigger_ingestion and the constructor with the exception.
AfterPage(kind, requested) ==
    CASE kind = "items" ->
            IF requested < max_pages THEN "paging" ELSE "upsert"
      [] kind = "empty" -> "upsert"
      [] IsRequestException(kind) -> "upsert"
      [] OTHER -> "raised"

IngestInit ==
    /\ i_pc = "idle"
    /\ i_pages = <<>>
    /\ i_all = <<>>
    /\ i_db = [meta |-> [e \in EventIds |-> NoRow], fts |-> EmptyBag]
    /\ i_upsert = Null

\* DiscoveryEngine(auto_ingest=True) on an empty or stale index (line
\* 59), the first time or after an earlier constructor returned or
\* raised.
IngestBegin ==
    /\ i_pc \in {"idle", "done", "raised"}
    /\ i_pc' = "paging"
    /\ i_pages' = <<>>
    /\ i_all' = <<>>
    /\ i_upsert' = Null
    /\ UNCHANGED i_db
    /\ UNCHANGED nonIngestVars

\* One iteration of "for i in range(max_pages)" (lines 80-120); a page of
\* the model carries one event.
RequestPage ==
    /\ i_pc = "paging"
    /\ \E kind \in PageKinds, m \in IngestInputs :
         /\ i_pages' = Append(i_pages, kind)
         /\ i_all' = IF kind = "items" THEN Append(i_all, m) ELSE i_all
         /\ i_pc' = AfterPage(kind, Len(i_pages) + 1)
    /\ UNCHANGED <<i_db, i_upsert>>
    /\ UNCHANGED nonIngestVars

\* count = self.index.upsert_markets(all_metadata) (line 122), after which
\* the constructor returns.
IngestUpsert ==
    /\ i_pc = "upsert"
    /\ \E failAt \in 0..(3 * Len(i_all) + 1) :
         LET r == RunStatements(i_db, i_all, 1, failAt)
         IN /\ i_db' = TransactionEnd(i_db, r)
            /\ i_upsert' = [raised |-> r.raised, count |-> r.count]
    /\ i_pc' = "done"
    /\ UNCHANGED <<i_pages, i_all>>
    /\ UNCHANGED nonIngestVars

IngestStep == IngestBegin \/ RequestPage \/ IngestUpsert

\* =====================================================================
\* PolymarketScraper.hydrate_metadata: a batch of index rows
\* =====================================================================
\* Index rows handed to hydrate_metadata: event_id is the id of the
\* catalog event, market_id the id of its first market or "" (discovery.py
\* lines 98-105).  The two ids are issued independently and may coincide.
MetadataRows == [event_id : {"101", "102"}, market_id : {"", "101", "555"}]

\* session.get or raise_for_status raised a RequestException.
RequestFailed == [failed |-> TRUE]

\* What GET /markets/{market_id} can answer in the model: the market of
\* that id with prices that parse, with a price outside [0, 1], or with a
\* volume float() rejects.
MarketResponses(market_id) ==
    {RequestFailed}
    \cup [id : {market_id},
          outcomes : {[ok |-> TRUE, list |-> <<"Yes", "No">>]},
          outcomePrices : {[ok |-> TRUE, list |-> <<"0.7", "0.3">>],
                           [ok |-> TRUE, list |-> <<"1.5">>]},
          volume_ok : BOOLEAN]

\* get_event_by_id (lines 124-134): None after a RequestException, else
\* whatever _parse_single_market returns.
get_event_by_id(response) ==
    IF response = RequestFailed THEN Null
    ELSE parse_single_market(response)

\* "if event:" (line 205): None is falsy, a MacroEvent object is truthy.
KeepEvent(event) == event # Null

\* hydrate_metadata (lines 200-208) from row k on; responses[k] is the
\* answer to row k's request.  origin lists, for each result, the row it
\* was hydrated from.
RECURSIVE HydrateFrom(_, _, _, _)
HydrateFrom(metadata, responses, k, acc) ==
    IF k > Len(metadata) THEN acc
    ELSE IF metadata[k].market_id = ""
    THEN HydrateFrom(metadata, responses, k + 1, acc)
    ELSE LET event == get_event_by_id(responses[k])
         IN HydrateFrom(metadata, responses, k + 1,
                IF KeepEvent(event)
                THEN [results |-> Append(acc.results, event),
                      origin |-> Append(acc.origin, k)]
                ELSE acc)

NoBatch == [called |-> FALSE]

BatchInit == b_last = NoBatch

\* hydrate_metadata(metadata).  Nothing is written, so one call per
\* behaviour is followed.
hydrate_metadata ==
    /\ b_last = NoBatch
    /\ \E n \in 0..MaxMeta :
       \E metadata \in [1..n -> MetadataRows] :
       \E responses \in [1..n -> UNION {MarketResponses(m) :
                                          m \in {"101", "555"}}] :
          /\ \A k \in 1..n :
               IF metadata[k].market_id = ""
               THEN responses[k] = RequestFailed
               ELSE responses[k] \in MarketResponses(metadata[k].market_id)
          /\ LET r == HydrateFrom(metadata, responses, 1,
                                  [results |-> <<>>, origin |-> <<>>])
             IN b_last' = [called |-> TRUE, metadata |-> metadata,
                           responses |-> responses,
                           results |-> r.results, origin |-> r.origin]
    /\ UNCHANGED nonBatchVars

BatchStep == hydrate_metadata

\* =====================================================================
\* RobustGenerationEngine (core/extraction/robust_engine.py)
\* =====================================================================
\* Variant of max_retries with one more attempt.
max_retries_more == 3 + 1

\* _generate_with_retry(..., max_retries=3, ...)
max_retries == 3

\* What model.generate_content can do: return a response, raise
\* ServiceUnavailable, or raise something else.
CallOutcomes == {"response", "ServiceUnavailable", "BadRequest", "Timeout"}

\* wait_time = 2 ** attempt (line 48)
wait_time(attempt) == 2 ^ attempt

\* How one pass of the retry loop ends (lines 44-55): with the response,
\* with another attempt after the sleep, or with an exception: the
\* call's own one, or "Max retries exceeded" once the range is used up.
AfterAttempt(outcome, attempt) ==
    CASE outcome = "response" -> [kind |-> "return"]
      [] outcome = "ServiceUnavailable" ->
            IF attempt + 1 < max_retries
            THEN [kind |-> "retry"]
            ELSE [kind |-> "raise", error |-> "Max retries exceeded"]
      [] OTHER -> [kind |-> "raise", error |-> outcome]

NoModel == [name |-> "none"]

RobustInit ==
    /\ r_pc = "idle"
    /\ r_model = NoModel
    /\ r_log = <<>>
    /\ r_done = 0
    /\ r_result = Null

\* generate_content_with_fallback is called: the primary model's retry
\* loop starts with attempt 0.
GenerateBegin ==
    /\ r_pc \in {"idle", "returned", "raised"}
    /\ r_done < MaxGenerations
    /\ r_pc' = "call"
    /\ r_model' = [name |-> "primary", attempt |-> 0]
    /\ r_log' = <<>>
    /\ r_result' = Null
    /\ UNCHANGED r_done
    /\ UNCHANGED nonRobustVars

\* One model.generate_content call and what follows it up to the next
\* call: the sleep of line 50, the fall back to the second model (lines
\* 32-37), the return, or the raise of line 40.
GenerateAttempt ==
    /\ r_pc = "call"
    /\ \E outcome \in CallOutcomes :
         LET after == AfterAttempt(outcome, r_model.attempt)
             slept == IF outcome = "ServiceUnavailable"
                      THEN wait_time(r_model.attempt) ELSE 0
             entry == [model |-> r_model.name, outcome |-> outcome,
                       slept |-> slept]
         IN /\ r_log' = Append(r_log, entry)
            /\ CASE after.kind = "return" ->
                      /\ r_pc' = "returned"
                      /\ r_result' = [response |-> Len(r_log) + 1]
                      /\ r_done' = r_done + 1
                      /\ UNCHANGED r_model
                 [] after.kind = "retry" ->
                      /\ r_model' = [r_model EXCEPT !.attempt = @ + 1]
                      /\ UNCHANGED <<r_pc, r_result, r_done>>
                 [] after.kind = "raise" /\ r_model.name = "primary" ->
                      /\ r_model' = [name |-> "fallback", attempt |-> 0]
                      /\ UNCHANGED <<r_pc, r_result, r_done>>
                 [] after.kind = "raise" /\ r_model.name = "fallback" ->
                      /\ r_pc' = "raised"
                      /\ r_result' = [error |-> after.error]
                      /\ r_done' = r_done + 1
                      /\ UNCHANGED r_model
    /\ UNCHANGED nonRobustVars

RobustStep == GenerateBegin \/ GenerateAttempt

Init == PollInit /\ SchedInit /\ IndexInit /\ SnapInit /\ SignalInit
    /\ ScrapeInit
    /\ ResolverInit
    /\ GroupInit
    /\ DiscoveryInit
    /\ HydrateInit
    /\ CliInit
    /\ EngineInit
    /\ AdapterInit
    /\ SearchInit
    /\ TickerSearchInit
    /\ IngestInit
    /\ BatchInit
    /\ RobustInit

SpecPoll == Init /\ [][PollStep]_vars

\* SpecPoll with the scheduling the code relies on: a pool thread that
\* can take a step takes it, every call made by a task returns or
\* raises, and run_once goes on when it can.
SpecPollFair == SpecPoll /\ WF_vars(PollStep)

SpecSched == Init /\ [][SchedStep]_vars

SpecIndex == Init /\ [][IndexStep]_vars

SpecSnap == Init /\ [][SnapStep]_vars

SpecSignal == Init /\ [][SignalStep]_vars

SpecScrape == Init /\ [][ScrapeStep]_vars

SpecResolver == Init /\ [][ResolverStep]_vars

SpecGroup == Init /\ [][GroupStep]_vars

SpecDiscovery == Init /\ [][DiscoveryStep]_vars

SpecHydrate == Init /\ [][HydrateStep]_vars

SpecCli == Init /\ [][CliStep]_vars

SpecEngine == Init /\ [][EngineStep]_vars

SpecAdapter == Init /\ [][AdapterStep]_vars

SpecSearch == Init /\ [][SearchStep]_vars

SpecTickerSearch == Init /\ [][TickerSearchStep]_vars

SpecIngest == Init /\ [][IngestStep]_vars

SpecBatch == Init /\ [][BatchStep]_vars

SpecRobust == Init /\ [][RobustStep]_vars

\* Every generate_content call returns or raises and every sleep ends.
SpecRobustFair == SpecRobust /\ WF_vars(GenerateAttempt)

SpecReload == Init /\ [][ReloadStep]_vars

\* ---------------------------------------------------------------------
\* Claims about the signal cache (checked under SpecSignal)
\* ---------------------------------------------------------------------

\* Positions in the log of the saves made for (ticker, provider) among
\* the first seen ones.
SavesFor(ticker, provider, seen) ==
    {i \in 1..seen :
        saveLog[i].ticker = ticker /\ saveLog[i].provider = provider}

\* What the claim says a read of (ticker, provider) at time at returns:
\* the payload of the last save made for the pair if it is younger than
\* the TTL, else null.
ExpectedLatest(ticker, provider, at, seen) ==
    LET mine == SavesFor(ticker, provider, seen)
    IN IF mine = {} THEN Null
       ELSE LET last == CHOOSE i \in mine : \A j \in mine : j <= i
            IN IF at - saveLog[last].timestamp < ttl_hours
               THEN saveLog[last].payload
               ELSE Null

\* C8: get_latest_signal(ticker, provider) returns the payload of the most
\* recently saved signal of the pair if and only if less than ttl_hours
\* have passed since its timestamp, and null otherwise (unknown entity,
\* no signal of that provider, or age at least the TTL); saves for other
\* tickers or providers do not matter.
C8_CacheTtl ==
    lastGet.called =>
        lastGet.ret = ExpectedLatest(lastGet.ticker, lastGet.provider,
                                     lastGet.at, lastGet.seen)

\* C8 witness: a read at age exactly ttl_hours of the pair's last save
\* returned null while a younger save of the same ticker for another
\* provider is in the cache.
C8_Witness ==
    /\ lastGet.called
    /\ lastGet.ret = Null
    /\ LET mine == SavesFor(lastGet.ticker, lastGet.provider, lastGet.seen)
       IN \E i \in mine :
            /\ lastGet.at - saveLog[i].timestamp = ttl_hours
            /\ \A j \in mine : j <= i
    /\ \E j \in 1..lastGet.seen :
         /\ saveLog[j].ticker = lastGet.ticker
         /\ saveLog[j].provider # lastGet.provider
         /\ lastGet.at - saveLog[j].timestamp < ttl_hours

\* C10: every signals row references an existing entities row, no two
\* entities rows share a ticker, the entity of a signal was created before
\* the signal was appended, and every save that appended a signal set the
\* entity's last_scraped_at (it holds the time of the entity's latest
\* signal).
C10_SignalHasEntity ==
    /\ \A i \in DOMAIN signals : signals[i].entity_id \in DOMAIN entities
    /\ \A i, j \in DOMAIN entities :
          entities[i].ticker = entities[j].ticker => i = j
    /\ \A c \in Callers :
          calls[c].pc = "signal" => calls[c].entity_id \in DOMAIN entities
    /\ \A i \in DOMAIN signals :
          LET e == entities[signals[i].entity_id]
          IN /\ e.last_scraped_at # Null
             /\ e.last_scraped_at.at >= signals[i].timestamp

\* C10 witness: a save for an unknown ticker created the entity and then
\* appended its signal, while a second entity exists.
C10_Witness ==
    /\ Len(entities) = 2
    /\ \E i \in DOMAIN saveLog :
         /\ saveLog[i].created
         /\ \E s \in DOMAIN signals :
              /\ signals[s].timestamp = saveLog[i].timestamp
              /\ entities[signals[s].entity_id].ticker = saveLog[i].ticker
              /\ entities[signals[s].entity_id].last_scraped_at
                    = [at |-> saveLog[i].timestamp]

\* ---------------------------------------------------------------------
\* Claims about the snapshot store (checked under SpecSnap)
\* ---------------------------------------------------------------------

\* Rows of macro_probabilities, with multiplicity, for one key.
RowsForKey(key) ==
    LET rs == {r \in BagToSet(macro_probabilities) :
                 <<r.event_id, r.timestamp>> = key}
        RECURSIVE Sum(_)
        Sum(S) == IF S = {} THEN 0
                  ELSE LET x == CHOOSE x \in S : TRUE
                       IN CopiesIn(x, macro_probabilities) + Sum(S \ {x})
    IN Sum(rs)

\* C9: save_snapshot returns true exactly when it added a row, a save for
\* a stored (event_id, timestamp) returns false, every key has at most
\* one row, and save_batch returns the number of rows it added.
C9_SnapshotUnique ==
    /\ \A r \in BagToSet(macro_probabilities) :
          RowsForKey(<<r.event_id, r.timestamp>>) = 1
    /\ snap_result.op = "save_snapshot" =>
          /\ snap_result.ret = (snap_result.added = 1)
          /\ snap_result.added \in {0, 1}
    /\ snap_result.op = "save_batch" =>
          snap_result.ret = snap_result.added

\* C9 witness: a save_batch whose events repeat a key returned 1, the
\* one row it added, with other rows stored before.
C9_Witness ==
    /\ snap_result.op = "save_batch"
    /\ snap_result.dups
    /\ snap_result.ret = 1
    /\ BagCardinality(macro_probabilities) >= 2

\* ---------------------------------------------------------------------
\* Claims about the market index (checked under SpecIndex)
\* ---------------------------------------------------------------------

\* event_ids that have a row in market_metadata / in market_fts.
MetadataIds == {e \in EventIds : market_metadata[e] # NoRow}
FtsIds == {r.event_id : r \in BagToSet(market_fts)}

\* C7: after any upsert_markets call, completed or failed part-way, the
\* event_ids of market_fts are those of market_metadata and every
\* event_id has exactly one full-text row.
C7_IndexParity ==
    /\ FtsIds = MetadataIds
    /\ \A r \in BagToSet(market_fts) : CopiesIn(r, market_fts) = 1
    /\ \A e \in EventIds :
         Cardinality({r \in BagToSet(market_fts) : r.event_id = e}) <= 1

\* C7 witness: a call failed part-way through a batch (at least one market
\* of it had been applied) on an index that holds rows, one of them
\* upserted more than once.
C7_Witness ==
    /\ upsert_result.called
    /\ upsert_result.raised
    /\ upsert_result.count >= 1
    /\ market_metadata["e1"] # NoRow
    /\ market_metadata["e1"].market_id = "m1"
    /\ market_metadata["e1"].title = "Fed cut in March"
    /\ market_metadata["e2"] # NoRow

\* Number of run_once executions in progress under start_scheduled.
CyclesInProgress == (IF schedPc = "startup" THEN 1 ELSE 0) + running

\* ---------------------------------------------------------------------
\* Claims about the scheduler (checked under SpecSched)
\* ---------------------------------------------------------------------

\* C3: under start_scheduled no two executions of run_once are in progress
\* at the same time; no job instance exists while the startup cycle runs,
\* and a run that comes due during a cycle is not started in parallel.
C3_NoOverlap ==
    /\ CyclesInProgress <= 1
    /\ schedPc = "startup" => submitted + running = 0

\* C3 witness: a run came due while the previous cycle was executing and
\* was refused, the cycle still being in progress.
C3_Witness ==
    /\ running = 1
    /\ maxSkipped >= 1

\* C4: every misfire and every job error appends exactly one
\* scheduler_events row, of type "misfire" or "error", and the listener
\* does not raise.  Violated: the error branch of the listener records
\* nothing and its misfire branch raises AttributeError on self.state.
C4_EventsRecorded ==
    /\ Len(sched_events) = missed + maxSkipped + errors
    /\ Cardinality({i \in DOMAIN sched_events : sched_events[i] = "error"})
          = errors
    /\ listenerRaised = 0

\* ---------------------------------------------------------------------
\* Claims about the polling engine (checked under SpecPoll)
\* ---------------------------------------------------------------------

\* C1: within one run_once cycle the extractor is invoked at most once per
\* accession, also when the adapter returned the accession twice and two
\* pool tasks handle it concurrently.  (The one-row half of the claim is
\* the primary key of processed_filings.)  Violated: both tasks pass
\* is_processed before either reaches mark_processed.
C1_AtMostOneExtractPerCycle ==
    \A a \in Accessions : extractCalls[a] <= 1

\* C2: once an accession is recorded in processed_filings, no later cycle
\* invokes the extractor or writes the report for it: the last cycle that
\* extracted or wrote it is not after the cycle that recorded it.
C2_NoReextractAfterProcessed ==
    \A a \in Accessions :
        processed[a] # NoRow =>
            /\ lastExtract[a] <= processed[a].processed_at
            /\ lastWrite[a] <= processed[a].processed_at

\* C2 witness: the filing extracted, written and recorded in cycle 1 is
\* returned again in cycle 2 and its task ends as a skip.
C2_Witness ==
    /\ cycle = 2
    /\ processed["A1"] # NoRow
    /\ processed["A1"].processed_at = 1
    /\ lastExtract["A1"] = 1
    /\ lastWrite["A1"] = 1
    /\ extractCalls["A1"] = 0
    /\ get_processed_count = 1
    /\ \E t \in TaskIds :
         /\ tasks[t].pc = "done"
         /\ tasks[t].filing.accession_number = "A1"
         /\ tasks[t].outcome = "skipped"

\* C5: every task for a well-formed, not-yet-processed filing calls
\* mark_processed before it ends, whatever failed on the way (text fetch,
\* extractor, report write or notifier).  Violated: an exception of the
\* extractor or of the report write leaves the try block before line 81.
C5_FailedFilingStillMarked ==
    \A t \in TaskIds :
        (tasks[t].pc = "done" /\ tasks[t].outcome \notin {"malformed", "skipped"})
            => tasks[t].marked

\* C6: processed_filings is append-only: a row, once present, is never
\* deleted and its ticker, filing_date and processed_at never change (a
\* mark_processed for a present accession is a no-op), and
\* processed_count never decreases.
C6_AppendOnly ==
    [][ /\ \A a \in Accessions :
             processed[a] # NoRow => processed'[a] = processed[a]
        /\ get_processed_count' >= get_processed_count ]_vars

\* C6 witness: mark_processed was called, without error, for accession A1
\* with filing_date 2024-11-21 while the stored row keeps 2024-11-20.
C6_Witness ==
    /\ processed["A1"] # NoRow
    /\ processed["A1"].filing_date = "2024-11-20"
    /\ \E t \in TaskIds :
         /\ tasks[t].pc = "done"
         /\ tasks[t].marked
         /\ tasks[t].outcome = "processed"
         /\ tasks[t].filing.accession_number = "A1"
         /\ tasks[t].filing.filing_date = "2024-11-21"

\* ---------------------------------------------------------------------
\* Scraper claims
\* ---------------------------------------------------------------------

\* C11: for each provider, a query that misses the cache saves the
\* result it returns under (ticker, provider), and the next query for
\* the same (ticker, provider) within the TTL of that miss is served
\* from the cache: it returns a payload equal to the first result and
\* does not call the upstream collector.
C11_ReadThrough ==
    sc_last.called =>
      /\ (~sc_last.hit /\ ~sc_last.raised) => sc_last.saved
      /\ (/\ sc_last.prev # Null
          /\ sc_last.at - sc_last.prev.at < ttl_hours)
         => /\ sc_last.hit
            /\ sc_last.upstream = 0
            /\ sc_last.ret = sc_last.prev.result

\* C19: with live requests disabled and the default
\* social_scraper_type, get_social_signal(ticker, query) returns a
\* payload with the requested ticker, metric "Tweet Sentiment",
\* total_tweets 50, avg_compound 0.18 and a signal among Bullish,
\* Bearish and Neutral, on a cold cache and on a repeat call.
C19_SimulatedSocialPayload ==
    (/\ sc_last.called
     /\ sc_last.provider = "social"
     /\ sc_last.type = default_social_scraper_type
     /\ ~sc_last.live
     /\ ~sc_last.raised)
    => /\ sc_last.ret.ticker = sc_last.ticker
       /\ sc_last.ret.metric = "Tweet Sentiment"
       /\ "total_tweets" \in DOMAIN sc_last.ret
       /\ sc_last.ret.total_tweets = "50"
       /\ "avg_compound" \in DOMAIN sc_last.ret
       /\ sc_last.ret.avg_compound = "0.18"
       /\ sc_last.ret.signal \in {"Bullish", "Bearish", "Neutral"}

\* ---------------------------------------------------------------------
\* HybridResolver claims
\* ---------------------------------------------------------------------

\* C12: for every query whose lowercased form is a key of the alias
\* map, resolve returns that alias's canonical entity and its ticker
\* with confidence 1.0 and method alias_lookup, whatever scores the
\* vector backend gives.
C12_AliasLookup ==
    (res_last.called /\ lower(res_last.query) \in DOMAIN alias_map)
    => res_last.ret =
         [ticker |-> entity_map[alias_map[lower(res_last.query)]],
          canonical_name |-> alias_map[lower(res_last.query)],
          confidence |-> 100, method |-> "alias_lookup"]

\* Scores a query unrelated to every known entity gets (the test's
\* "usually score < 0.2"), and the confidence it may at most come
\* back with, in hundredths.
unrelated_score == 20
low_confidence == 30

BestScore(scores) ==
    CHOOSE v \in {scores[i] : i \in DOMAIN scores} :
      \A i \in DOMAIN scores : scores[i] <= v

C14_NoTornRead ==
    /\ (resPc.pc = "failed") => ~resPc.usable
    /\ (resPc.pc = "done" /\ resPc.ret # Null)
       => /\ resPc.ret.canonical_name = resPc.scored
          /\ \E ents \in Corpora :
               /\ resPc.ret.canonical_name
                    \in DOMAIN EntityMapOf(ents, Len(ents))
               /\ EntityMapOf(ents, Len(ents))[resPc.ret.canonical_name]
                    = resPc.ret.ticker

\* ---------------------------------------------------------------------
\* Market grouping claims
\* ---------------------------------------------------------------------
NotNS(t) == ~EndsWithNS(t)

\* C15: group_tickers_by_market partitions its input, tickers ending in
\* '.NS' in the Indian group and every other ticker in the U.S. group,
\* keeping input order and multiplicity; a finished run_once has called
\* get_latest_filings once per non-empty group, with exactly that
\* group's tickers, through the adapter get_client gives for them, and
\* not at all for an empty group.
C15_GroupedCalls ==
    (g_pc \in {"loop", "done"} /\ Len(g_tickers.list) > 0)
    => LET edgar == SelectSeq(g_tickers.list, NotNS)
           nse == SelectSeq(g_tickers.list, EndsWithNS)
       IN /\ g_groups = [edgar |-> edgar, nse |-> nse]
          /\ Len(edgar) + Len(nse) = Len(g_tickers.list)
          /\ g_pc = "done"
             => g_calls =
                  (IF Len(edgar) = 0 THEN <<>>
                   ELSE <<[client |-> "edgar_client", tickers |-> edgar]>>)
                  \o (IF Len(nse) = 0 THEN <<>>
                      ELSE <<[client |-> "nse_client", tickers |-> nse]>>)

\* A finished cycle over a list that starts with an Indian ticker, holds
\* a lowercase '.ns' ticker and has asked both adapters.
C15_Witness ==
    /\ g_pc = "done"
    /\ Len(g_calls) = 2
    /\ g_tickers.list[1] = "RELIANCE.NS"
    /\ \E i \in DOMAIN g_tickers.list : g_tickers.list[i] = "reliance.ns"
    /\ g_calls[1].client = "edgar_client"
    /\ g_calls[2].client = "nse_client"

\* ---------------------------------------------------------------------
\* DiscoveryEngine claims
\* ---------------------------------------------------------------------

\* C16: constructing a DiscoveryEngine with auto_ingest on an empty or
\* stale index runs one ingest to completion before the constructor
\* returns, after which, when the catalog returned at least one event,
\* get_count() > 0 and is_stale(max_stale_hours) is false; with
\* auto_ingest off, or an index that is neither empty nor stale, no
\* ingest is triggered.
C16_AutoIngest ==
    d_last.called =>
      IF d_last.auto_ingest /\ (d_last.was_empty \/ d_last.was_stale)
      THEN /\ d_last.ingests = 1
           /\ ~d_last.raised
           /\ d_last.upstream > 0
              => (d_last.count_after > 0 /\ ~d_last.stale_after)
      ELSE d_last.ingests = 0

\* ---------------------------------------------------------------------
\* Hydration claims
\* ---------------------------------------------------------------------

\* C17: every MacroEvent produced by hydration with a non-empty outcomes
\* list has its outcomes paired positionally with the upstream labels
\* and prices and has probability_yes equal to the probability of
\* outcomes[0]; every produced MacroEvent has probability_yes in [0, 1].
C17_OutcomesPaired ==
    (h_last.called /\ h_last.event # Null)
    => LET ev == h_last.event
       IN /\ ev.probability_yes >= 0
          /\ ev.probability_yes <= 100
          /\ (ev.outcomes # Null /\ Len(ev.outcomes.list) > 0)
             => LET labels == h_last.market.outcomes.list
                    prices == h_last.market.outcomePrices.list
                    out == ev.outcomes.list
                IN /\ Len(out) = Min(Len(labels), Len(prices))
                   /\ \A i \in DOMAIN out :
                        /\ out[i].label = labels[i]
                        /\ out[i].probability = float_of(prices[i])
                   /\ ev.probability_yes = out[1].probability

\* ---------------------------------------------------------------------
\* Command line claims
\* ---------------------------------------------------------------------

\* C18: an invocation with a configuration error (--interval not above
\* 0, or --misfire-grace-seconds not above 0) ends with exit code 2
\* before any polling cycle; an invocation with valid arguments starts
\* the engine (start_loop with --simple, else start_scheduled) instead
\* of ending with an error.
C18_CliExitCodes ==
    cli_last.called =>
      LET argv == cli_last.argv
          config_error ==
            \/ argv.interval <= 0
            \/ argv.misfire.given /\ argv.misfire.value <= 0
      IN IF config_error
         THEN /\ cli_last.out.exited
              /\ cli_last.out.code = 2
              /\ cli_last.out.started = "none"
         ELSE /\ ~cli_last.out.exited
              /\ cli_last.out.started =
                   IF argv.simple THEN "start_loop" ELSE "start_scheduled"

\* ---------------------------------------------------------------------
\* Polling claims (continued)
\* ---------------------------------------------------------------------

\* C20: a task whose get_filing_text raised for a not-yet-processed
\* filing goes from the fetch straight to mark_processed, past the
\* extractor and the report write, and ends having called
\* mark_processed; and a task of a later cycle for an accession that is
\* recorded ends at the is_processed test as a skip.
C20_FetchFailureStillMarked ==
    \A t \in TaskIds :
      tasks[t].pc # "none" =>
        /\ tasks[t].fetch = "raised"
           => /\ tasks[t].pc \in {"mark", "done"}
              /\ tasks[t].pc = "done"
                 => (tasks[t].outcome = "processed" /\ tasks[t].marked)
        /\ (/\ tasks[t].filing.accession_number # None
            /\ processed[tasks[t].filing.accession_number] # NoRow
            /\ processed[tasks[t].filing.accession_number].processed_at
                 < cycle)
           => /\ tasks[t].pc \in {"queued", "done"}
              /\ tasks[t].pc = "done" => tasks[t].outcome = "skipped"

\* C20 witness: in cycle 1 the fetch for A1 raised, the task ended with
\* mark_processed, the row is there, and neither the extractor nor the
\* report write has ever run for A1.
C20_Witness ==
    /\ cycle = 1
    /\ \E t \in TaskIds :
         /\ tasks[t].pc = "done"
         /\ tasks[t].fetch = "raised"
         /\ tasks[t].outcome = "processed"
         /\ tasks[t].filing.accession_number = "A1"
    /\ processed["A1"] # NoRow
    /\ lastExtract["A1"] = 0
    /\ lastWrite["A1"] = 0

\* The task that records the row of accession a in this step: it is at
\* the mark_processed call and the row appears.
Records(t, a) ==
    /\ tasks[t].pc = "mark"
    /\ tasks'[t].pc = "done"
    /\ tasks[t].filing.accession_number = a
    /\ processed[a] = NoRow
    /\ processed'[a] # NoRow

\* C21: every row of processed_filings is recorded by a task in which
\* the extractor ran successfully: whenever a row appears, the task that
\* records it has fetched a text and the extractor has run for the
\* accession in this cycle.
C21_RowAfterExtractor ==
    [][\A a \in Accessions :
         (processed[a] = NoRow /\ processed'[a] # NoRow)
         => \E t \in TaskIds :
              /\ Records(t, a)
              /\ tasks[t].fetch = "text"
              /\ lastExtract[a] = cycle]_vars

\* C21 as amended: a row of processed_filings is recorded by a task that
\* either ran the extractor and wrote the report without an exception,
\* or had no text to extract from (no filing object, an empty text, or a
\* fetch that raised); no row is recorded by a task whose extractor or
\* report write raised.
C21_RowAfterExtractorOrNoText ==
    [][\A a \in Accessions :
         (processed[a] = NoRow /\ processed'[a] # NoRow)
         => \E t \in TaskIds :
              /\ Records(t, a)
              /\ \/ /\ tasks[t].fetch = "text"
                    /\ lastExtract[a] = cycle
                    /\ lastWrite[a] = cycle
                 \/ tasks[t].fetch \in {"empty", "raised"}
                 \/ /\ tasks[t].fetch = "none"
                    /\ ~tasks[t].filing.filing_obj]_vars

\* C21 witness: A1 was recorded in cycle 1 after its extractor run and
\* report write, and B1, which has no filing object, was recorded in the
\* same cycle without any extractor run.
C21_Witness ==
    /\ processed["A1"] # NoRow
    /\ processed["A1"].processed_at = 1
    /\ lastExtract["A1"] = 1
    /\ lastWrite["A1"] = 1
    /\ processed["B1"] # NoRow
    /\ lastExtract["B1"] = 0

\* ---------------------------------------------------------------------
\* Engine claims
\* ---------------------------------------------------------------------

\* C22: an exception that escapes a polling cycle never stops polling:
\* whenever a run_once of start_loop or start_scheduled (startup cycle
\* or scheduled tick) has ended with an exception, the engine has not
\* ended with an exception; it is still polling unless an interrupt
\* stopped it.
C22_ExceptionNeverStopsPolling ==
    \A i \in DOMAIN e_ended :
       e_ended[i].end = "raised"
       => /\ e_pc # "raised"
          /\ e_interrupted \/ e_pc \in Polling

C24_GroupFailureIsolated ==
    /\ e_run # Null
       => \A g \in 1..Len(Markets) :
            (/\ e_run.outcome[Markets[g]].kind = "raised"
             /\ e_run.exc = "none"
             /\ g < Len(Markets))
            => e_run.group > g
    /\ e_last # Null
       => /\ e_last.end = "returned"
             => \A m \in {"edgar", "nse"} :
                  /\ e_last.outcome[m].kind \in {"raised", "empty", "filings"}
                  /\ e_last.outcome[m].submitted = e_last.outcome[m].returned
          /\ e_last.end = "raised"
             => \E m \in {"edgar", "nse"} : e_last.outcome[m].kind = "fatal"

\* C24 witness: a run_once has returned in which the query of the U.S.
\* group raised and both filings of the Indian group were submitted.
C24_Witness ==
    /\ e_last # Null
    /\ e_last.end = "returned"
    /\ e_last.outcome["edgar"].kind = "raised"
    /\ e_last.outcome["nse"].kind = "filings"
    /\ e_last.outcome["nse"].submitted = 2
    /\ e_last.pending = 0

\* Every market group of an ended run_once was handled: its adapter was
\* asked and what it returned was submitted.
AllGroupsHandled(c) ==
    \A m \in {"edgar", "nse"} :
       /\ c.outcome[m].kind \in {"raised", "empty", "filings"}
       /\ c.outcome[m].submitted = c.outcome[m].returned

\* C25: after a KeyboardInterrupt that arrives while a run_once is in
\* flight, that run_once finishes (every market group handled, every
\* submitted task run to completion), no new run_once begins, and the
\* engine returns without raising.
C25_InterruptDrainsCycle ==
    /\ [](e_interrupted
          => /\ e_pc # "raised"
             /\ e_pc = "returned" => e_run = Null
             /\ (e_last # Null /\ e_last.end = "interrupted")
                => (AllGroupsHandled(e_last) /\ e_last.pending = 0))
    /\ [][e_interrupted => ~(e_run = Null /\ e_run' # Null)]_vars

\* ---------------------------------------------------------------------
\* Adapter claims
\* ---------------------------------------------------------------------
RECURSIVE FilterTicker(_, _)
FilterTicker(results, t) ==
    IF results = <<>> THEN <<>>
    ELSE (IF Head(results).ticker = t THEN <<Head(results)>> ELSE <<>>)
         \o FilterTicker(Tail(results), t)

\* The announcements of the feed that belong to ticker t for a call with
\* these tickers, latest first.
RECURSIVE FeedOf(_, _, _, _)
FeedOf(feed, tickers, t, i) ==
    IF i > Len(feed) THEN <<>>
    ELSE (IF MatchedTicker(feed[i], tickers, 1) = [ticker |-> t]
          THEN <<[ticker |-> t, accession_number |-> i]>> ELSE <<>>)
         \o FeedOf(feed, tickers, t, i + 1)

Take(s, n) == SubSeq(s, 1, IF Len(s) < n THEN Len(s) ELSE n)

\* C27: for both adapters get_latest_filings applies limit per ticker:
\* for each requested ticker whose source answered, the returned filings
\* of that ticker are the first limit of its latest filings (for the
\* feed: of its announcements among the entries the adapter reads),
\* whatever the other tickers have, and every returned filing carries a
\* requested ticker.
C27_LimitPerTicker ==
    a_last.adapter # "none"
    => LET req == {a_last.tickers[i] : i \in DOMAIN a_last.tickers}
       IN /\ \A i \in DOMAIN a_last.results :
               a_last.results[i].ticker \in req
          /\ a_last.adapter = "edgar"
             => \A t \in req :
                  a_last.company[t].ok
                  => FilterTicker(a_last.results, t)
                       = LatestOf(t, a_last.company[t].n, a_last.limit, 1)
          /\ (a_last.adapter = "nse" /\ a_last.feedOk)
             => \A t \in req :
                  FilterTicker(a_last.results, t)
                    = Take(FeedOf(Window(a_last.feed, a_last.limit),
                                  a_last.tickers, t, 1),
                           a_last.limit)

\* ---------------------------------------------------------------------
\* Index claims (continued)
\* ---------------------------------------------------------------------

\* C28: an upsert_markets call leaves market_id, description, slug, tags
\* and end_date of every row that already exists as they were first
\* inserted (only volume_usd and title may change, and the row is not
\* removed), and leaves the rows of event_ids that are not in the batch
\* unchanged.
C28_UpsertFrame ==
    [][\A e \in EventIds :
         /\ market_metadata[e] # NoRow
            => /\ market_metadata'[e] # NoRow
               /\ market_metadata'[e].market_id = market_metadata[e].market_id
               /\ market_metadata'[e].description
                    = market_metadata[e].description
               /\ market_metadata'[e].slug = market_metadata[e].slug
               /\ market_metadata'[e].tags = market_metadata[e].tags
               /\ market_metadata'[e].end_date = market_metadata[e].end_date
         /\ (upsert_result'.called /\ e \notin upsert_result'.ids)
            => market_metadata'[e] = market_metadata[e]]_vars

\* C28 witness: e1 was inserted in its first version and then upserted
\* in its second: title and volume_usd are the second version's, every
\* other field is the first version's.
C28_Witness ==
    /\ upsert_result.called
    /\ ~upsert_result.raised
    /\ market_metadata["e1"] =
         [market_id |-> "m1", title |-> "Fed cut in March",
          description |-> None, slug |-> None, tags |-> "macro",
          volume_usd |-> 20, end_date |-> None]

\* C29: the integer upsert_markets returns is the number of input rows
\* the call persisted in both tables: all of them after a commit, none
\* after a rollback.
C29_CountIsPersisted ==
    upsert_result.called
    => upsert_result.count
         = (IF upsert_result.raised THEN 0 ELSE upsert_result.n)

\* ---------------------------------------------------------------------
\* Search claims
\* ---------------------------------------------------------------------
IdRank(e) == CHOOSE i \in DOMAIN SearchIds : SearchIds[i] = e

\* C30: search(query, limit) returns at most limit rows, all matching,
\* in non-increasing volume_usd order with rows of equal volume_usd in
\* ascending event_id order, and none that ranks before a returned row
\* is left out: the result is a function of the index and the query.
C30_SearchOrder ==
    s_last.called
    => LET r == s_last.results
           M == Matching(s_last.index, s_last.ftsOk)
           Before(a, b) ==
               \/ s_last.index[a].volume_usd > s_last.index[b].volume_usd
               \/ /\ s_last.index[a].volume_usd = s_last.index[b].volume_usd
                  /\ IdRank(a) < IdRank(b)
       IN /\ Len(r) <= s_last.limit
          /\ \A i \in DOMAIN r : r[i] \in M
          /\ \A i, j \in DOMAIN r : i < j => Before(r[i], r[j])
          /\ \A i \in DOMAIN r :
               \A e \in M : Before(e, r[i]) => \E j \in DOMAIN r : r[j] = e

\* C26: start_scheduled with interval_minutes <= 0 raises a
\* configuration error before any polling cycle runs and before the job
\* is registered, whatever cron_expression is; with an invalid cron
\* expression and a positive interval (and a valid grace time) the job
\* is registered on the interval trigger.
C26_IntervalValidated ==
    e_entry = "start_scheduled"
    => /\ e_args.interval_minutes <= 0
          => /\ e_pc = "raised"
             /\ e_error = "ValueError"
             /\ e_job = Null
             /\ e_run = Null
             /\ e_ended = <<>>
       /\ (/\ e_args.apscheduler
           /\ e_args.interval_minutes > 0
           /\ e_args.cron_expression # "None"
           /\ ~CronValid(e_args.cron_expression)
           /\ ~(e_args.misfire.given /\ e_args.misfire.value <= 0))
          => /\ e_job # Null
             /\ e_job.trigger = IntervalTrigger(e_args.interval_minutes)

\* ---------------------------------------------------------------------
\* search_ticker claims
\* ---------------------------------------------------------------------
\* C31: search_ticker(ticker, limit) returns at most limit rows, no two
\* with the same event_id, in non-increasing volume_usd order, each
\* selected by at least one of the ticker's keywords (for an unmapped
\* ticker, by the upper-cased ticker itself).
C31_TickerSearchResult ==
    t_last.called
    => LET r == t_last.results
           index == t_last.index
           kws == get_keywords_for_ticker(t_last.ticker)
       IN /\ Len(r) <= t_last.limit
          /\ \A i, j \in DOMAIN r : i # j => r[i] # r[j]
          /\ \A i, j \in DOMAIN r :
               i < j => index[r[i]].volume_usd >= index[r[j]].volume_usd
          /\ \A i \in DOMAIN r :
               \E k \in DOMAIN kws : r[i] \in MatchingKeyword(index, kws[k])
          /\ TICKER_THEME_MAP(upper(t_last.ticker)) = Null
             => \A i \in DOMAIN r :
                  upper(t_last.ticker) \in index[r[i]].selected_by

\* A mapped ticker whose two returned rows come from different keywords,
\* the later keyword's row having the larger volume.
C31_Witness ==
    /\ t_last.called
    /\ t_last.ticker = "nvda"
    /\ Len(t_last.results) = 2
    /\ t_last.index[t_last.results[1]].selected_by = {"Nvidia"}
    /\ t_last.index[t_last.results[2]].selected_by = {"NVDA"}
    /\ t_last.index[t_last.results[1]].volume_usd
         > t_last.index[t_last.results[2]].volume_usd

MatchingAny(index, ticker) ==
    LET kws == get_keywords_for_ticker(ticker)
    IN UNION {MatchingKeyword(index, kws[k]) : k \in DOMAIN kws}

\* C39: the volumes of the rows search_ticker returns are those of the
\* limit highest-volume rows among all rows selected by any keyword: for
\* every volume v, as many returned rows have volume_usd >= v as the
\* index allows, up to limit.
C39_TopVolumes ==
    t_last.called
    => LET r == t_last.results
           index == t_last.index
           M == MatchingAny(index, t_last.ticker)
           AtLeast(v) == Cardinality({e \in M : index[e].volume_usd >= v})
           Returned(v) ==
               Cardinality({i \in DOMAIN r : index[r[i]].volume_usd >= v})
       IN /\ Len(r) = Min(t_last.limit, Cardinality(M))
          /\ \A e \in M :
               Returned(index[e].volume_usd)
                 = Min(t_last.limit, AtLeast(index[e].volume_usd))

\* A call in which the first keyword's search is cut by the cap, and a
\* later keyword alone selects a row of larger volume than every row of
\* the first.
C39_Witness ==
    /\ t_last.called
    /\ t_last.ticker = "nvda"
    /\ t_last.limit >= 1
    /\ Cardinality(MatchingKeyword(t_last.index, "NVDA")) > t_last.limit
    /\ \E e \in MatchingKeyword(t_last.index, "Nvidia") :
          /\ e \notin MatchingKeyword(t_last.index, "NVDA")
          /\ \A x \in MatchingKeyword(t_last.index, "NVDA") :
                t_last.index[x].volume_usd < t_last.index[e].volume_usd
          /\ t_last.results[1] = e

\* ---------------------------------------------------------------------
\* Bulk ingest claims
\* ---------------------------------------------------------------------
\* C32: an error on any page stops the paging and what the earlier pages
\* brought is upserted; at most max_pages pages are requested, none after
\* an empty page, and no error leaves the constructor.
C32_ResilientIngest ==
    /\ i_pc # "raised"
    /\ Len(i_pages) <= max_pages
    /\ \A k \in 1..(Len(i_pages) - 1) : i_pages[k] = "items"
    /\ i_pc = "done"
       => \A k \in DOMAIN i_all : i_db.meta[i_all[k].event_id] # NoRow

\* ---------------------------------------------------------------------
\* Batch hydration claims
\* ---------------------------------------------------------------------
\* The rows of the last batch whose market was fetched and parsed.
Hydratable ==
    {k \in DOMAIN b_last.metadata :
        /\ b_last.metadata[k].market_id # ""
        /\ b_last.responses[k] # RequestFailed
        /\ parse_single_market(b_last.responses[k]) # ErrorEvent}

\* C33: hydrate_metadata skips rows without market_id and drops markets
\* whose fetch or parse failed: no returned event is the shell event
\* (empty event_id, source "error"), and exactly the other rows of the
\* batch are hydrated, in order.
C33_NoShellEvents ==
    b_last.called
    => /\ \A i \in DOMAIN b_last.results :
            /\ b_last.results[i].event_id # ""
            /\ b_last.results[i].source # "error"
       /\ {b_last.origin[i] : i \in DOMAIN b_last.origin} = Hydratable
       /\ \A i, j \in DOMAIN b_last.origin :
            i < j => b_last.origin[i] < b_last.origin[j]

\* C38: every MacroEvent hydrate_metadata returns carries the event_id of
\* the index row it was hydrated from.
C38_EventIdOfRow ==
    b_last.called
    => \A i \in DOMAIN b_last.results :
          b_last.results[i].event_id
             = b_last.metadata[b_last.origin[i]].event_id

\* ---------------------------------------------------------------------
\* Robust generation claims
\* ---------------------------------------------------------------------
CallsOf(name) == SelectSeq(r_log, LAMBDA c : c.model = name)

\* The sleeps of one model's retry loop are 1, 2, 4, ... seconds.
ExponentialWaits(cs) ==
    \A k \in DOMAIN cs :
        cs[k].outcome = "ServiceUnavailable"
        => cs[k].slept = (IF k = 1 THEN 1 ELSE 2 * cs[k - 1].slept)

PrimaryFailed ==
    LET p == CallsOf("primary")
    IN /\ p # <<>>
       /\ p[Len(p)].outcome # "response"
       /\ (p[Len(p)].outcome = "ServiceUnavailable" => Len(p) = 3)

OrEmpty(v) == IF v = None THEN "" ELSE v

\* C35: after any sequence of upsert_markets calls, the title,
\* description, tags and slug of every full-text row equal those of the
\* market_metadata row of the same event_id.
C35_FtsTextIsRowText ==
    \A r \in BagToSet(market_fts) :
        market_metadata[r.event_id] # NoRow
        => LET row == market_metadata[r.event_id]
           IN /\ r.title = row.title
              /\ r.description = OrEmpty(row.description)
              /\ r.tags = row.tags
              /\ r.slug = OrEmpty(row.slug)

\* ---------------------------------------------------------------------
\* Concurrent save_signal claims
\* ---------------------------------------------------------------------
\* C36: save_signal calls running concurrently for the same unknown
\* ticker all complete: there is never more than one entities row per
\* ticker, and a call that found the ticker unknown goes on from the
\* entity step to its signal row instead of ending with an error.
C36_ConcurrentFirstSaves ==
    /\ [](\A t \in SignalTickers :
            Cardinality({i \in DOMAIN entities : entities[i].ticker = t})
               <= 1)
    /\ [][\A c \in Callers :
            calls[c].pc = "create" => calls'[c].pc \in {"create", "signal"}
         ]_vars

\* ---------------------------------------------------------------------
\* Failed collection claims
\* ---------------------------------------------------------------------
\* C37: a query whose collector raised or returned nothing writes no
\* signal to the cache, and the next query for the same (ticker,
\* provider) within the TTL goes to the collector again instead of being
\* served from the cache.
C37_FailureNotCached ==
    sc_last.called =>
      /\ (~sc_last.hit /\ sc_last.failed) => ~sc_last.saved
      /\ (/\ sc_last.prev # Null
          /\ sc_last.prev.failed
          /\ sc_last.at - sc_last.prev.at < ttl_hours)
         => /\ ~sc_last.hit
            /\ sc_last.upstream = 1

\* ---------------------------------------------------------------------
\* Order of the steps of a worker task
\* ---------------------------------------------------------------------
\* Task t moves to step pc in this step.
Enters(t, pc) == tasks[t].pc # pc /\ tasks'[t].pc = pc

\* C40: within a task that got a text the order is extractor, report
\* file, notifier, mark_processed: each step is entered from the one
\* before it, the notifier only with the file of this cycle written, and
\* a task with a text that is at or past mark_processed has run the
\* extractor and written the report for its accession in this cycle.
C40_ReportBeforeMark ==
    /\ [](\A t \in TaskIds :
            (/\ tasks[t].pc \in {"mark", "done"}
             /\ tasks[t].fetch = "text"
             /\ (tasks[t].pc = "mark" \/ tasks[t].marked))
            => /\ lastExtract[tasks[t].filing.accession_number] = cycle
               /\ lastWrite[tasks[t].filing.accession_number] = cycle)
    /\ [][\A t \in TaskIds :
            /\ Enters(t, "extract")
               => tasks[t].pc = "fetch" /\ tasks'[t].fetch = "text"
            /\ Enters(t, "save") => tasks[t].pc = "extract"
            /\ Enters(t, "notify")
               => /\ tasks[t].pc = "save"
                  /\ lastWrite'[tasks[t].filing.accession_number] = cycle
            /\ (Enters(t, "mark") /\ tasks'[t].fetch = "text")
               => tasks[t].pc = "notify"
            /\ (tasks[t].pc # "none" /\ tasks'[t].pc # "none"
                /\ ~tasks[t].marked /\ tasks'[t].marked)
               => tasks[t].pc = "mark"
         ]_vars

\* A task fetched a text, ran the extractor, wrote the report and
\* recorded the row, all in cycle 1, while another task of the cycle
\* ended at a report write that raised.
C40_Witness ==
    /\ cycle = 1
    /\ processed["A1"] # NoRow
    /\ lastExtract["A1"] = 1
    /\ lastWrite["A1"] = 1
    /\ \E t \in TaskIds :
         /\ tasks[t].pc = "done"
         /\ tasks[t].fetch = "text"
         /\ tasks[t].marked
    /\ \E t \in TaskIds :
         /\ tasks[t].pc = "done"
         /\ tasks[t].outcome = "write_raised"

====
